---------------------------- MODULE Spec2Model ----------------------------
(***************************************************************************)
(* A model of the ferricstore triple store: the in-memory label store and  *)
(* file store (storage/memory.rs), the per-layer and cross-layer triple    *)
(* iterators (layer/internal/subject_iterator.rs) and the rollup engine    *)
(* (storage/delta.rs).                                                     *)
(*                                                                         *)
(* Option<T> is modelled as a sequence of length 0 (None) or 1 (Some).     *)
(***************************************************************************)
EXTENDS Integers, Sequences, FiniteSets, TLC

VARIABLES
    labels,     \* MemoryLabelStore.labels: HashMap<String, Label>
    lclient,    \* per client: the label-store call it has issued, waiting for the lock
    lret,       \* the result of the label-store call that completed last
    wins,       \* history: successful set_label calls per (name, snapshot version)
    fvec,       \* MemoryBackedStore.vec: the bytes of the file
    fpoisoned,  \* whether the std::sync::RwLock around vec is poisoned
    fwriters,   \* MemoryBackedStoreWriter handles: slot -> None or Some([pos, late])
    freader,    \* a MemoryBackedStoreReader handle: None or Some(pos)
    fmap,       \* the future or buffer returned by map(): [state, shared, data]
    fres,       \* result of the last write: "Ok", "Err", "Panic" or "None"
    layers,     \* the layer store: name -> the parent and the files of the layer
    rollups,    \* the layer store: name -> the layer holding the rollup of it (0: none)
    last,       \* the last rollup: its kind, its arguments and the layer it produced
    iter,       \* an InternalTripleSubjectIterator: None or Some([positives, negatives, done])
    emitted,    \* history: the triples the iterator has returned
    mlayers,    \* MemoryLayerStore.layers: name -> the parent of the layer
    mcache,     \* the LayerCache: name -> None or Some(layer)
    mgot,       \* the last get_layer call: its name, whether it was registered, the result
    mcreated,   \* the last create_child_layer call: its parent and the result
    input,      \* the input of the function that is applied
    output      \* history: the calls made on the input and what they returned

labelVars == <<labels, lclient, lret, wins>>
fileVars == <<fvec, fpoisoned, fwriters, freader, fmap, fres>>
layerVars == <<layers, rollups, last, iter, emitted>>
storeVars == <<mlayers, mcache, mgot, mcreated>>
callVars == <<input, output>>
vars == <<labelVars, fileVars, layerVars, storeVars, callVars>>

None == <<>>
Some(x) == <<x>>

(***************************************************************************)
(* Bounds of the model.                                                    *)
(***************************************************************************)
NumClients == 2
MaxVersion == 2
MaxFileLen == 2
MaxWriters == 1

Clients == 1..NumClients
LabelNames == {"foo", "bar"}
OptLayer == {None, Some(1)}
Bytes == {1, 2}

(***************************************************************************)
(* Labels (storage/label.rs).                                              *)
(***************************************************************************)
Label(name, version, layer) == [name |-> name, version |-> version, layer |-> layer]

new_empty(name) == Label(name, 0, None)

with_updated_layer(label, layer) == Label(label.name, label.version + 1, layer)

Idle == [pc |-> "idle", new_label |-> None]

\* the result of a call: its value, and for set_label_option the label it tried to store
Ret(op, kind, val, arg) == [op |-> op, kind |-> kind, val |-> val, arg |-> arg]

(***************************************************************************)
(* MemoryLabelStore.  Every operation takes the futures_locks::RwLock      *)
(* around the map and runs its closure while holding it, so the closure is *)
(* one atomic step; what a call computes before it asks for the lock is a  *)
(* step of its own.                                                        *)
(***************************************************************************)
InitLabels ==
    /\ labels = << >>
    /\ lclient = [c \in Clients |-> Idle]
    /\ lret = Ret("none", "none", None, None)
    /\ wins = [s \in LabelNames \X (0..MaxVersion) |-> 0]

\* create_label, before the lock: let label = Label::new_empty(name)
create_label_call(c, name) ==
    /\ lclient[c].pc = "idle"
    /\ lclient' = [lclient EXCEPT ![c] = [pc |-> "create", new_label |-> Some(new_empty(name))]]
    /\ UNCHANGED <<labels, lret, wins>>
    /\ UNCHANGED <<fileVars, layerVars, storeVars, callVars>>

\* create_label, the closure under the write lock
create_label(c) ==
    /\ lclient[c].pc = "create"
    /\ LET label == lclient[c].new_label[1] IN
        IF label.name \in DOMAIN labels
        THEN /\ lret' = Ret("create", "InvalidInput", None, None)
             /\ UNCHANGED labels
        ELSE /\ labels' = [n \in DOMAIN labels \cup {label.name} |->
                              IF n = label.name THEN label ELSE labels[n]]
             /\ lret' = Ret("create", "Ok", None, None)
    /\ lclient' = [lclient EXCEPT ![c] = Idle]
    /\ UNCHANGED wins
    /\ UNCHANGED <<fileVars, layerVars, storeVars, callVars>>

\* set_label_option, before the lock: let new_label = label.with_updated_layer(layer)
set_label_option_call(c, label, layer) ==
    /\ lclient[c].pc = "idle"
    /\ label.version < MaxVersion
    /\ lclient' = [lclient EXCEPT ![c] =
            [pc |-> "set", new_label |-> Some(with_updated_layer(label, layer))]]
    /\ UNCHANGED <<labels, lret, wins>>
    /\ UNCHANGED <<fileVars, layerVars, storeVars, callVars>>

\* A comparison that lets every update through.
version_mismatch_never(old_label, new_label) == FALSE

\* A comparison that rejects only labels from the future, so a stale label passes.
version_mismatch_stale(old_label, new_label) == old_label.version + 1 < new_label.version

\* if old_label.version + 1 != new_label.version
version_mismatch(old_label, new_label) == old_label.version + 1 /= new_label.version

\* the closure with the insert done before the versions are compared
set_label_option_insert_first(c) ==
    /\ lclient[c].pc = "set"
    /\ LET new_label == lclient[c].new_label[1] IN
        IF new_label.name \notin DOMAIN labels
        THEN /\ lret' = Ret("set", "InvalidInput", None, None)
             /\ UNCHANGED <<labels, wins>>
        ELSE LET old_label == labels[new_label.name] IN
             /\ labels' = [labels EXCEPT ![new_label.name] = new_label]
             /\ IF version_mismatch(old_label, new_label)
                THEN /\ lret' = Ret("set", "Ok", None, Some(new_label))
                     /\ UNCHANGED wins
                ELSE /\ wins' = [wins EXCEPT ![<<new_label.name, new_label.version - 1>>] = @ + 1]
                     /\ lret' = Ret("set", "Ok", Some(new_label), Some(new_label))
    /\ lclient' = [lclient EXCEPT ![c] = Idle]
    /\ UNCHANGED <<fileVars, layerVars, storeVars, callVars>>

\* set_label_option, the closure under the write lock
set_label_option(c) ==
    /\ lclient[c].pc = "set"
    /\ LET new_label == lclient[c].new_label[1] IN
        IF new_label.name \notin DOMAIN labels
        THEN /\ lret' = Ret("set", "InvalidInput", None, None)
             /\ UNCHANGED <<labels, wins>>
        ELSE LET old_label == labels[new_label.name] IN
             IF version_mismatch(old_label, new_label)
             THEN /\ lret' = Ret("set", "Ok", None, Some(new_label))
                  /\ UNCHANGED <<labels, wins>>
             ELSE /\ labels' = [labels EXCEPT ![new_label.name] = new_label]
                  /\ wins' = [wins EXCEPT ![<<new_label.name, new_label.version - 1>>] = @ + 1]
                  /\ lret' = Ret("set", "Ok", Some(new_label), Some(new_label))
    /\ lclient' = [lclient EXCEPT ![c] = Idle]
    /\ UNCHANGED <<fileVars, layerVars, storeVars, callVars>>

\* the labels a caller may pass: with_updated_layer reads only the name and the version
LabelInputs == {Label(n, v, None) : n \in LabelNames, v \in 0..MaxVersion}

NextLabels ==
    \/ \E c \in Clients, name \in LabelNames : create_label_call(c, name)
    \/ \E c \in Clients : create_label(c)
    \/ \E c \in Clients, label \in LabelInputs, layer \in OptLayer :
            set_label_option_call(c, label, layer)
    \/ \E c \in Clients : set_label_option(c)

(***************************************************************************)
(* MemoryBackedStore: a file held in memory as Arc<RwLock<Vec<u8>>>.       *)
(* Writer and reader handles are values their owner may drop.              *)
(***************************************************************************)
NoMap == [state |-> "none", shared |-> FALSE, data |-> << >>]

InitFile ==
    /\ fvec = << >>
    /\ fpoisoned = FALSE
    /\ fwriters = [w \in 1..MaxWriters |-> None]
    /\ freader = None
    /\ fmap = NoMap
    /\ fres = "None"

\* v.resize(n, 0)
resize(v, n) == [i \in 1..n |-> IF i <= Len(v) THEN v[i] ELSE 0]

\* v[pos..pos + buf.len()].copy_from_slice(buf)
copy_from_slice(v, pos, buf) ==
    [i \in 1..Len(v) |-> IF i > pos /\ i <= pos + Len(buf) THEN buf[i - pos] ELSE v[i]]

\* open_write_from: a writer over the same vec, at pos ("late" records whether
\* the file already had content when the writer was obtained)
open_write_from(w, pos) ==
    /\ fwriters[w] = None
    /\ fwriters' = [fwriters EXCEPT ![w] = Some([pos |-> pos, late |-> Len(fvec) > 0])]
    /\ UNCHANGED <<fvec, fpoisoned, freader, fmap, fres>>
    /\ UNCHANGED <<labelVars, layerVars, storeVars, callVars>>

\* MemoryBackedStoreWriter::write.  A position past the end of the vec makes
\* the subtraction (or, without overflow checks, the slice) panic while the
\* write guard is held, which poisons the lock.
write(w, buf) ==
    /\ fwriters[w] /= None
    /\ fwriters[w][1].pos + Len(buf) <= MaxFileLen
    /\ IF fpoisoned \/ fwriters[w][1].pos > Len(fvec)
       THEN /\ fpoisoned' = TRUE
            /\ fres' = "Panic"
            /\ UNCHANGED <<fvec, fwriters>>
       ELSE LET pos == fwriters[w][1].pos
                v == IF Len(fvec) - pos < Len(buf) THEN resize(fvec, pos + Len(buf)) ELSE fvec
            IN /\ fvec' = copy_from_slice(v, pos, buf)
               /\ fwriters' = [fwriters EXCEPT ![w] = Some([@[1] EXCEPT !.pos = pos + Len(buf)])]
               /\ fres' = "Ok"
               /\ UNCHANGED fpoisoned
    /\ UNCHANGED <<freader, fmap>>
    /\ UNCHANGED <<labelVars, layerVars, storeVars, callVars>>

\* the writer is dropped
drop_writer(w) ==
    /\ fwriters[w] /= None
    /\ fwriters' = [fwriters EXCEPT ![w] = None]
    /\ UNCHANGED <<fvec, fpoisoned, freader, fmap, fres>>
    /\ UNCHANGED <<labelVars, layerVars, storeVars, callVars>>

\* open_read_from
open_read_from(offset) ==
    /\ freader' = Some(offset)
    /\ UNCHANGED <<fvec, fpoisoned, fwriters, fmap, fres>>
    /\ UNCHANGED <<labelVars, layerVars, storeVars, callVars>>

\* MemoryBackedStoreReader::read into a buffer of n bytes
read(n) ==
    /\ freader /= None
    /\ ~fpoisoned
    /\ LET pos == freader[1] IN
        IF pos >= Len(fvec)
        THEN UNCHANGED freader
        ELSE freader' = Some(pos + (IF Len(fvec) - pos >= n THEN n ELSE Len(fvec) - pos))
    /\ UNCHANGED <<fvec, fpoisoned, fwriters, fmap, fres>>
    /\ UNCHANGED <<labelVars, layerVars, storeVars, callVars>>

\* map(): returns a lazy future that holds a clone of the Arc
map ==
    /\ fmap' = [state |-> "lazy", shared |-> FALSE, data |-> << >>]
    /\ UNCHANGED <<fvec, fpoisoned, fwriters, freader, fres>>
    /\ UNCHANGED <<labelVars, layerVars, storeVars, callVars>>

\* A map future that hands out the shared vec itself instead of a copy of it.
map_poll_shared ==
    /\ fmap.state = "lazy"
    /\ ~fpoisoned
    /\ fmap' = [state |-> "ready", shared |-> TRUE, data |-> fvec]
    /\ UNCHANGED <<fvec, fpoisoned, fwriters, freader, fres>>
    /\ UNCHANGED <<labelVars, layerVars, storeVars, callVars>>

\* the map future is polled: SharedBuf::from_vec(vec.read().unwrap().clone())
map_poll ==
    /\ fmap.state = "lazy"
    /\ ~fpoisoned
    /\ fmap' = [state |-> "ready", shared |-> FALSE, data |-> fvec]
    /\ UNCHANGED <<fvec, fpoisoned, fwriters, freader, fres>>
    /\ UNCHANGED <<labelVars, layerVars, storeVars, callVars>>
\* the bytes a holder of the buffer sees
SharedBufBytes(b, v) == IF b.shared THEN v ELSE b.data

WriteBufs == {<<b>> : b \in Bytes} \cup {<<b1, b2>> : b1 \in Bytes, b2 \in Bytes}

NextFile ==
    \/ \E w \in 1..MaxWriters, pos \in 0..MaxFileLen : open_write_from(w, pos)
    \/ \E w \in 1..MaxWriters, buf \in WriteBufs : write(w, buf)
    \/ \E w \in 1..MaxWriters : drop_writer(w)
    \/ \E offset \in 0..MaxFileLen : open_read_from(offset)
    \/ \E n \in 1..MaxFileLen : read(n)
    \/ map
    \/ map_poll

(***************************************************************************)
(* Layers.  A string of a dictionary is modelled by a number whose order   *)
(* is the lexical order of the string: the nodes 10 < 20, the predicates   *)
(* 30 < 40.  An id triple is <<subject, predicate, object>> over ids >= 1. *)
(***************************************************************************)
Universe == {<<20, 40, 10>>, <<10, 30, 10>>, <<10, 30, 20>>, <<20, 30, 10>>}

MaxLayers == 3
MaxChanges == 3
MaxRollups == 2

\* IdTriple derives Ord: subject, then predicate, then object
TripleLess(t, u) ==
    \/ t[1] < u[1]
    \/ t[1] = u[1] /\ t[2] < u[2]
    \/ t[1] = u[1] /\ t[2] = u[2] /\ t[3] < u[3]

Range(f) == {f[i] : i \in DOMAIN f}

\* the elements of a set of numbers, ascending
SortNums(S) == [i \in 1..Cardinality(S) |-> CHOOSE x \in S : Cardinality({y \in S : y < x}) = i - 1]

\* the elements of a set of triples, ascending
SortTriples(S) ==
    [i \in 1..Cardinality(S) |-> CHOOSE t \in S : Cardinality({u \in S : TripleLess(u, t)}) = i - 1]

StrictlyAscending(ts) == \A i \in 1..(Len(ts) - 1) : TripleLess(ts[i], ts[i + 1])

RECURSIVE Flatten(_)
Flatten(ss) == IF ss = << >> THEN << >> ELSE Head(ss) \o Flatten(Tail(ss))

\* AdjacencyListBuilder: the right values of every left key in turn, with the
\* bit set at the last entry of a left key; a left key without entries gets
\* the placeholder 0
AdjacencyListBuilder(groups) ==
    LET padded == [k \in DOMAIN groups |-> IF groups[k] = << >> THEN <<0>> ELSE groups[k]]
    IN [nums |-> Flatten(padded),
        bits |-> Flatten([k \in DOMAIN padded |->
                            [i \in 1..Len(padded[k]) |-> i = Len(padded[k])]])]

\* TripleFileBuilder: add_id_triples and finalize.  Without a subjects file
\* the left keys of s_p are the subject ids 1..max; with one they are the
\* positions in the subjects array.  The left keys of sp_o are the positions
\* in s_p.  The builder panics on input that is not strictly ascending.
TripleFileBuilder(triples, sparse) ==
    LET ts == Range(triples)
        subs == SortNums({t[1] : t \in ts})
        lefts == IF sparse \/ subs = << >> THEN subs ELSE [i \in 1..subs[Len(subs)] |-> i]
        preds(s) == SortNums({t[2] : t \in {u \in ts : u[1] = s}})
        pairs == Flatten([i \in DOMAIN lefts |->
                    IF preds(lefts[i]) = << >> THEN << <<lefts[i], 0>> >>
                    ELSE [j \in 1..Len(preds(lefts[i])) |-> <<lefts[i], preds(lefts[i])[j]>>]])
        objs(k) == SortNums({t[3] : t \in {u \in ts : u[1] = pairs[k][1] /\ u[2] = pairs[k][2]}})
    IN [panicked |-> ~StrictlyAscending(triples),
        subjects |-> IF sparse THEN Some(subs) ELSE None,
        s_p_adjacency_list |-> AdjacencyListBuilder([i \in DOMAIN lefts |-> preds(lefts[i])]),
        sp_o_adjacency_list |-> AdjacencyListBuilder([k \in DOMAIN pairs |-> objs(k)])]

RECURSIVE Sum(_)
Sum(ns) == IF ns = << >> THEN 0 ELSE Head(ns) + Sum(Tail(ns))

Reverse(s) == [i \in 1..Len(s) |-> s[Len(s) + 1 - i]]

\* AdjacencyList accessors, positions counted from 0
right_count(al) == Len(al.nums)

bit_at_pos(al, pos) == al.bits[pos + 1]

num_at_pos(al, pos) == al.nums[pos + 1]

(***************************************************************************)
(* Id maps (layer/id_map.rs).  The wavelet tree of an id map is modelled   *)
(* by the sequence it encodes: decode_one(i) is its element i (from 0),    *)
(* lookup_one(x) the first position (from 0) at which x occurs, if any.    *)
(***************************************************************************)
decode_one(wtree, i) == wtree[i + 1]

lookup_one(wtree, x) ==
    LET at == {i \in DOMAIN wtree : wtree[i] = x}
    IN IF at = {} THEN None ELSE Some((CHOOSE i \in at : \A j \in at : i <= j) - 1)

\* what a call returns when it panics; the ids are not negative
Panicked == -1

outer_to_inner_identity(idmap, id) == id

\* IdMap::outer_to_inner.  unwrap() panics on an id the wavelet tree does
\* not hold; for id = 0 the subtraction id - 1 panics in a build with
\* overflow checks, and wraps to an id the wavelet tree does not hold in one
\* without
outer_to_inner(idmap, id) ==
    IF idmap = None \/ id > Len(idmap[1]) THEN id
    ELSE IF lookup_one(idmap[1], id - 1) = None THEN Panicked
    ELSE lookup_one(idmap[1], id - 1)[1] + 1

inner_to_outer_identity(idmap, id) == id

\* IdMap::inner_to_outer.  For id = 0 the subtraction id - 1 panics in a
\* build with overflow checks, and wraps to a position past the end of the
\* wavelet tree in one without
inner_to_outer(idmap, id) ==
    IF idmap = None \/ id > Len(idmap[1]) THEN id
    ELSE IF id = 0 THEN Panicked
    ELSE decode_one(idmap[1], id - 1) + 1

\* sorted_iterator over the (id, entry) iterators of the dictionaries: the
\* pairs by ascending entry, the earlier iterator first among equal entries
sorted_iterator(iters) ==
    LET items == UNION {{<<ix, i>> : i \in DOMAIN iters[ix]} : ix \in DOMAIN iters}
        before(x, y) == \/ iters[x[1]][x[2]][2] < iters[y[1]][y[2]][2]
                        \/ iters[x[1]][x[2]][2] = iters[y[1]][y[2]][2] /\ x[1] < y[1]
    IN [k \in 1..Cardinality(items) |->
            LET x == CHOOSE x \in items : Cardinality({y \in items : before(y, x)}) = k - 1
            IN iters[x[1]][x[2]]]

\* the offset without the entries of the dictionaries before
offset_of_zero(node_dicts, value_dicts, ix) == 0

\* the offset of dictionary ix: the entries of the dictionaries before it
offset_of(node_dicts, value_dicts, ix) ==
    Sum([k \in 1..(ix - 1) |-> Len(node_dicts[k]) + Len(value_dicts[k])])

construct_idmaps_from_structures(node_dicts, predicate_dicts, value_dicts, node_value_idmaps, predicate_idmaps) ==
    LET len == Len(node_dicts)
        none == [k \in 1..len |-> << >>]
        node_iters == [ix \in 1..len |-> [i \in 1..Len(node_dicts[ix]) |->
            <<inner_to_outer(node_value_idmaps[ix], i) + offset_of(node_dicts, value_dicts, ix),
              node_dicts[ix][i]>>]]
        value_iters == [ix \in 1..len |-> [i \in 1..Len(value_dicts[ix]) |->
            <<inner_to_outer(node_value_idmaps[ix], i + Len(node_dicts[ix]))
                  + offset_of(node_dicts, value_dicts, ix),
              value_dicts[ix][i]>>]]
        predicate_iters == [ix \in 1..len |-> [i \in 1..Len(predicate_dicts[ix]) |->
            <<inner_to_outer(predicate_idmaps[ix], i) + offset_of(predicate_dicts, none, ix),
              predicate_dicts[ix][i]>>]]
        sorted_node_value_iter == sorted_iterator(node_iters) \o sorted_iterator(value_iters)
        sorted_predicate_iter == sorted_iterator(predicate_iters)
    IN [node_value_idmap |-> Some([k \in DOMAIN sorted_node_value_iter |->
                                        sorted_node_value_iter[k][1] - 1]),
        predicate_idmap |-> Some([k \in DOMAIN sorted_predicate_iter |->
                                        sorted_predicate_iter[k][1] - 1])]

construct_idmaps_from_layers(layers_) ==
    construct_idmaps_from_structures(
        [k \in DOMAIN layers_ |-> layers_[k].node_dictionary],
        [k \in DOMAIN layers_ |-> layers_[k].predicate_dictionary],
        [k \in DOMAIN layers_ |-> layers_[k].value_dictionary],
        [k \in DOMAIN layers_ |-> layers_[k].node_value_idmap],
        [k \in DOMAIN layers_ |-> layers_[k].predicate_idmap])

(***************************************************************************)
(* The per-layer subject iterator (layer/internal/subject_iterator.rs).    *)
(***************************************************************************)
InternalLayerTripleSubjectIterator_new(subjects, s_p_adjacency_list, sp_o_adjacency_list) ==
    [subjects |-> subjects,
     s_p_adjacency_list |-> s_p_adjacency_list,
     sp_o_adjacency_list |-> sp_o_adjacency_list,
     s_position |-> 0, s_p_position |-> 0, sp_o_position |-> 0,
     peeked |-> None]

\* the step that returns what is at the position, a triple or not
advance_no_skip(self) ==
    IF self.sp_o_position >= right_count(self.sp_o_adjacency_list)
    THEN [self |-> self, out |-> None]
    ELSE [self |-> [self EXCEPT !.s_position = @ + 1, !.s_p_position = @ + 1,
                                !.sp_o_position = @ + 1],
          out |-> Some(<<IF self.subjects /= None THEN self.subjects[1][self.s_position + 1]
                         ELSE self.s_position + 1,
                         num_at_pos(self.s_p_adjacency_list, self.s_p_position),
                         num_at_pos(self.sp_o_adjacency_list, self.sp_o_position)>>)]

\* the loop of next()
RECURSIVE advance(_)
advance(self) ==
    IF self.sp_o_position >= right_count(self.sp_o_adjacency_list)
    THEN [self |-> self, out |-> None]
    ELSE LET subject == IF self.subjects /= None
                        THEN self.subjects[1][self.s_position + 1]
                        ELSE self.s_position + 1
             s_p_bit == bit_at_pos(self.s_p_adjacency_list, self.s_p_position)
             predicate == num_at_pos(self.s_p_adjacency_list, self.s_p_position)
             sp_o_bit == bit_at_pos(self.sp_o_adjacency_list, self.sp_o_position)
             object == num_at_pos(self.sp_o_adjacency_list, self.sp_o_position)
             skipped == [self EXCEPT !.s_position = IF s_p_bit THEN @ + 1 ELSE @,
                                     !.s_p_position = @ + 1,
                                     !.sp_o_position = @ + 1]
             moved == [self EXCEPT !.s_p_position = IF sp_o_bit THEN @ + 1 ELSE @,
                                   !.s_position = IF sp_o_bit /\ s_p_bit THEN @ + 1 ELSE @,
                                   !.sp_o_position = @ + 1]
         IN IF predicate = 0 THEN advance(skipped)
            ELSE IF object = 0 THEN advance(moved)
            ELSE [self |-> moved, out |-> Some(<<subject, predicate, object>>)]

\* Iterator::next of InternalLayerTripleSubjectIterator
InternalLayerTripleSubjectIterator_next(self) ==
    IF self.peeked /= None
    THEN [self |-> [self EXCEPT !.peeked = None], out |-> self.peeked]
    ELSE advance(self)

\* peek with the triple dropped instead of kept in self.peeked
InternalLayerTripleSubjectIterator_peek_dropped(self) ==
    InternalLayerTripleSubjectIterator_next(self).self

\* peek: the iterator after self.peeked = self.next()
InternalLayerTripleSubjectIterator_peek(self) ==
    LET n == InternalLayerTripleSubjectIterator_next(self)
    IN [n.self EXCEPT !.peeked = n.out]

\* OptInternalLayerTripleSubjectIterator: peek and next of the iterator, if any
Opt_peek(o) == IF o = None THEN None ELSE Some(InternalLayerTripleSubjectIterator_peek(o[1]))

Opt_peeked(o) == IF o = None THEN None ELSE o[1].peeked

Opt_next(o) ==
    IF o = None THEN [self |-> None, out |-> None]
    ELSE LET n == InternalLayerTripleSubjectIterator_next(o[1])
         IN [self |-> Some(n.self), out |-> n.out]

\* internal_triple_additions and internal_triple_removals of a layer; a base
\* layer has no removals
internal_triple_additions(layer) ==
    Some(InternalLayerTripleSubjectIterator_new(
            layer.pos.subjects, layer.pos.s_p_adjacency_list, layer.pos.sp_o_adjacency_list))

internal_triple_removals(layer) ==
    IF layer.neg = None THEN None
    ELSE Some(InternalLayerTripleSubjectIterator_new(
            layer.neg[1].subjects, layer.neg[1].s_p_adjacency_list,
            layer.neg[1].sp_o_adjacency_list))

(***************************************************************************)
(* The cross-layer iterator.  A layer in memory is the sequence of its     *)
(* own structures and those of its ancestors, the leaf first.              *)
(***************************************************************************)
from_layer(layer) ==
    [positives |-> [i \in DOMAIN layer |-> internal_triple_additions(layer[i])],
     negatives |-> [i \in DOMAIN layer |-> internal_triple_removals(layer[i])]]

\* min_by_key over the peeked triples that are Some: the index (from 0) of the
\* first of the lowest ones
min_by_key_max(peeks) ==
    LET some == {i \in DOMAIN peeks : peeks[i] /= None}
    IN IF some = {} THEN None
       ELSE Some((CHOOSE i \in some : \A j \in some :
                    \/ TripleLess(peeks[j][1], peeks[i][1])
                    \/ peeks[i][1] = peeks[j][1] /\ i <= j) - 1)

min_by_key_last(peeks) ==
    LET some == {i \in DOMAIN peeks : peeks[i] /= None}
    IN IF some = {} THEN None
       ELSE Some((CHOOSE i \in some : \A j \in some :
                    \/ TripleLess(peeks[i][1], peeks[j][1])
                    \/ peeks[i][1] = peeks[j][1] /\ i >= j) - 1)

min_by_key(peeks) ==
    LET some == {i \in DOMAIN peeks : peeks[i] /= None}
    IN IF some = {} THEN None
       ELSE Some((CHOOSE i \in some : \A j \in some :
                    \/ TripleLess(peeks[i][1], peeks[j][1])
                    \/ peeks[i][1] = peeks[j][1] /\ i <= j) - 1)

\* self.negatives[0..lowest_index]
negatives_below_all(negatives, lowest_index) == negatives

negatives_below_none(negatives, lowest_index) == SubSeq(negatives, 1, 0)

negatives_below(negatives, lowest_index) == SubSeq(negatives, 1, lowest_index)

\* the for loop over the removals of the more recent layers: every iterator
\* is peeked in turn, and the first one that peeks lowest is advanced
RECURSIVE removal_scan(_, _, _)
removal_scan(below, ix, lowest) ==
    IF ix > Len(below) THEN [negatives |-> below, found |-> FALSE]
    ELSE LET peeked == Opt_peek(below[ix])
         IN IF Opt_peeked(peeked) = Some(lowest)
            THEN [negatives |-> [below EXCEPT ![ix] = Opt_next(peeked).self], found |-> TRUE]
            ELSE removal_scan([below EXCEPT ![ix] = peeked], ix + 1, lowest)

\* one pass of the loop of next() with the addition peeked and put back
\* instead of taken
next_pass_not_taken(self) ==
    LET positives == [i \in DOMAIN self.positives |-> Opt_peek(self.positives[i])]
        lowest_index == min_by_key([i \in DOMAIN positives |-> Opt_peeked(positives[i])])
    IN IF lowest_index = None
       THEN [self |-> [self EXCEPT !.positives = positives], out |-> None, again |-> FALSE]
       ELSE LET lowest == Opt_peeked(positives[lowest_index[1] + 1])[1]
                scan == removal_scan(negatives_below(self.negatives, lowest_index[1]), 1, lowest)
                after == [positives |-> positives,
                          negatives |-> [i \in DOMAIN self.negatives |->
                                            IF i <= Len(scan.negatives) THEN scan.negatives[i]
                                            ELSE self.negatives[i]]]
            IN [self |-> after, out |-> IF scan.found THEN None ELSE Some(lowest),
                again |-> scan.found]

\* one pass of the loop of next(): the iterator after the pass, what the pass
\* returns, and whether the loop goes on (continue 'outer)
next_pass(self) ==
    LET positives == [i \in DOMAIN self.positives |-> Opt_peek(self.positives[i])]
        lowest_index == min_by_key([i \in DOMAIN positives |-> Opt_peeked(positives[i])])
    IN IF lowest_index = None
       THEN [self |-> [self EXCEPT !.positives = positives], out |-> None, again |-> FALSE]
       ELSE LET taken == Opt_next(positives[lowest_index[1] + 1])
                lowest == taken.out[1]
                scan == removal_scan(negatives_below(self.negatives, lowest_index[1]), 1, lowest)
                after == [positives |-> [positives EXCEPT ![lowest_index[1] + 1] = taken.self],
                          negatives |-> [i \in DOMAIN self.negatives |->
                                            IF i <= Len(scan.negatives) THEN scan.negatives[i]
                                            ELSE self.negatives[i]]]
            IN [self |-> after, out |-> IF scan.found THEN None ELSE Some(lowest),
                again |-> scan.found]

\* Iterator::next of InternalTripleSubjectIterator
RECURSIVE InternalTripleSubjectIterator_next(_)
InternalTripleSubjectIterator_next(self) ==
    LET p == next_pass(self)
    IN IF p.again THEN InternalTripleSubjectIterator_next(p.self)
       ELSE [self |-> p.self, out |-> p.out]

\* collect() of an iterator; it ends at the first None
RECURSIVE collect(_)
collect(self) ==
    LET n == InternalTripleSubjectIterator_next(self)
    IN IF n.out = None THEN << >> ELSE <<n.out[1]>> \o collect(n.self)

\* Layer::triples
triples(layer) == collect(from_layer(layer))

(***************************************************************************)
(* Layers in the store.  layers[n] holds the structures of the layer named *)
(* n as its builder wrote them, rollups[n] those of the rollup registered  *)
(* for it.  additions and removals record the string triples the builder   *)
(* was given.                                                              *)
(***************************************************************************)
LayerNames == 1..MaxLayers

NoRollups == [n \in LayerNames |-> None]

\* the last rollup the store has run: its kind, the name of the layer, the
\* ancestor given, the layer as it was loaded, and the number of rollups run
NoRollup == [kind |-> "none", name |-> 0, upto |-> 0, layer |-> << >>, count |-> 0]

InitLayers ==
    /\ layers = << >>
    /\ rollups = NoRollups
    /\ last = NoRollup
    /\ iter = None
    /\ emitted = << >>

\* get_layer: the layer named n with its ancestors, the leaf first; a layer
\* with a rollup is loaded from the rollup, under its own name
RECURSIVE load(_, _)
load(n, rolls) ==
    LET l == IF rolls[n] /= None THEN rolls[n][1] ELSE layers[n]
    IN <<[l EXCEPT !.name = n]>> \o (IF l.parent = None THEN << >> ELSE load(l.parent[1], rolls))

get_layer(n) == load(n, rollups)

\* the number of entries of a dictionary over a layer and its ancestors; node
\* ids and value ids share one id space
count(layer, dict) ==
    Sum([i \in DOMAIN layer |->
            Len(layer[i][dict])
            + (IF dict = "node_dictionary" THEN Len(layer[i].value_dictionary) ELSE 0)])

\* subject_id, predicate_id, object_node_id: the id of a string, 0 if unknown
RECURSIVE string_id(_, _, _, _)
string_id(layer, dict, idmap, s) ==
    IF layer = << >> THEN 0
    ELSE IF s \in Range(layer[1][dict])
    THEN inner_to_outer(layer[1][idmap], CHOOSE i \in DOMAIN layer[1][dict] : layer[1][dict][i] = s)
         + count(Tail(layer), dict)
    ELSE string_id(Tail(layer), dict, idmap, s)

\* id_subject, id_predicate, id_object: the string of an id, 0 if it has none
RECURSIVE id_string(_, _, _, _)
id_string(layer, dict, idmap, id) ==
    IF layer = << >> \/ id = 0 THEN 0
    ELSE IF id > count(Tail(layer), dict)
    THEN LET inner == outer_to_inner(layer[1][idmap], id - count(Tail(layer), dict))
         IN IF inner \in DOMAIN layer[1][dict] THEN layer[1][dict][inner] ELSE 0
    ELSE id_string(Tail(layer), dict, idmap, id)

string_triple_to_id(layer, t) ==
    <<string_id(layer, "node_dictionary", "node_value_idmap", t[1]),
      string_id(layer, "predicate_dictionary", "predicate_idmap", t[2]),
      string_id(layer, "node_dictionary", "node_value_idmap", t[3])>>

id_triple_to_string(layer, t) ==
    <<id_string(layer, "node_dictionary", "node_value_idmap", t[1]),
      id_string(layer, "predicate_dictionary", "predicate_idmap", t[2]),
      id_string(layer, "node_dictionary", "node_value_idmap", t[3])>>

\* the effective string triples of the layer named n: those of its parent
\* with the additions of the layer and without its removals
RECURSIVE Effective(_)
Effective(n) ==
    LET previous == IF layers[n].parent = None THEN {} ELSE Effective(layers[n].parent[1])
    IN (previous \cup layers[n].additions) \ layers[n].removals

Changes == Sum([n \in DOMAIN layers |->
                    Cardinality(layers[n].additions) + Cardinality(layers[n].removals)])

\* the layer a builder commits: the strings its ancestors do not know go to
\* its dictionaries in lexical order, the triples to its files in id order
build_layer(parent, adds, rems) ==
    LET above == IF parent = None THEN << >> ELSE load(parent[1], NoRollups)
        strings == adds \cup rems
        nodes == {s \in {t[1] : t \in strings} \cup {t[3] : t \in strings} :
                    string_id(above, "node_dictionary", "node_value_idmap", s) = 0}
        predicates == {s \in {t[2] : t \in strings} :
                    string_id(above, "predicate_dictionary", "predicate_idmap", s) = 0}
        dicts == [name |-> 0, parent |-> parent,
                  node_dictionary |-> SortNums(nodes),
                  predicate_dictionary |-> SortNums(predicates),
                  value_dictionary |-> << >>,
                  node_value_idmap |-> None, predicate_idmap |-> None]
        ids(ts) == SortTriples({string_triple_to_id(<<dicts>> \o above, t) : t \in ts})
    IN [name |-> 0, parent |-> parent,
        node_dictionary |-> dicts.node_dictionary,
        predicate_dictionary |-> dicts.predicate_dictionary,
        value_dictionary |-> << >>,
        node_value_idmap |-> None, predicate_idmap |-> None,
        pos |-> TripleFileBuilder(ids(adds), parent /= None),
        neg |-> IF parent = None THEN None ELSE Some(TripleFileBuilder(ids(rems), TRUE)),
        additions |-> adds, removals |-> rems]

create_base_layer(adds) ==
    /\ layers = << >>
    /\ Cardinality(adds) <= MaxChanges
    /\ layers' = <<build_layer(None, adds, {})>>
    /\ UNCHANGED <<rollups, last, iter, emitted>>
    /\ UNCHANGED <<labelVars, fileVars, storeVars, callVars>>

create_child_layer(adds, rems) ==
    /\ layers /= << >>
    /\ Len(layers) < MaxLayers
    /\ Changes + Cardinality(adds) + Cardinality(rems) <= MaxChanges
    /\ adds \cap rems = {}
    /\ rems \subseteq Effective(Len(layers))
    /\ layers' = Append(layers, build_layer(Some(Len(layers)), adds, rems))
    /\ UNCHANGED <<rollups, last, iter, emitted>>
    /\ UNCHANGED <<labelVars, fileVars, storeVars, callVars>>

\* let iter = InternalTripleSubjectIterator::from_layer(&layer)
from_layer_call(n) ==
    /\ n \in DOMAIN layers
    /\ iter' = Some([name |-> n, it |-> from_layer(get_layer(n)), done |-> FALSE])
    /\ emitted' = << >>
    /\ UNCHANGED <<layers, rollups, last>>
    /\ UNCHANGED <<labelVars, fileVars, storeVars, callVars>>

\* iter.next()
next ==
    /\ iter /= None
    /\ ~iter[1].done
    /\ LET n == InternalTripleSubjectIterator_next(iter[1].it)
       IN /\ iter' = Some([iter[1] EXCEPT !.it = n.self, !.done = (n.out = None)])
          /\ emitted' = IF n.out = None THEN emitted ELSE Append(emitted, n.out[1])
    /\ UNCHANGED <<layers, rollups, last>>
    /\ UNCHANGED <<labelVars, fileVars, storeVars, callVars>>

NextMerge ==
    \/ \E adds \in SUBSET Universe : create_base_layer(adds)
    \/ \E adds \in SUBSET Universe, rems \in SUBSET Universe : create_child_layer(adds, rems)
    \/ \E n \in LayerNames : from_layer_call(n)
    \/ next

(***************************************************************************)
(* Rollups (storage/delta.rs).                                             *)
(***************************************************************************)
\* walk_backwards_from_disk_upto: the names from name back to upto, upto
\* excluded, the most recent first, by the parent files of the layers
RECURSIVE walk_backwards_from_disk_upto(_, _)
walk_backwards_from_disk_upto(name, upto) ==
    IF name = upto THEN << >>
    ELSE <<name>> \o (IF layers[name].parent = None THEN << >>
                      ELSE walk_backwards_from_disk_upto(layers[name].parent[1], upto))

retrieve_layer_stack_names_upto(name, upto) == Reverse(walk_backwards_from_disk_upto(name, upto))

\* the loop without the look-up of the parent in the names of the stack
RECURSIVE safe_upto_bound_loop_unchecked(_, _, _)
safe_upto_bound_loop_unchecked(l, disk_layer_names, upto) ==
    IF Tail(l) = << >> THEN l[1].name
    ELSE IF Tail(l)[1].name = upto THEN upto
    ELSE safe_upto_bound_loop_unchecked(Tail(l), disk_layer_names, upto)

\* the loop of safe_upto_bound over l and its in-memory parents
RECURSIVE safe_upto_bound_loop(_, _, _)
safe_upto_bound_loop(l, disk_layer_names, upto) ==
    IF Tail(l) = << >> THEN l[1].name
    ELSE IF Tail(l)[1].name = upto THEN upto
    ELSE IF \E ix \in DOMAIN disk_layer_names : disk_layer_names[ix] = Tail(l)[1].name
    THEN safe_upto_bound_loop(
            Tail(l),
            SubSeq(disk_layer_names, 1,
                   (CHOOSE ix \in DOMAIN disk_layer_names :
                        disk_layer_names[ix] = Tail(l)[1].name) - 1),
            upto)
    ELSE l[1].name

safe_upto_bound(layer, upto) ==
    IF layer[1].name = upto THEN upto
    ELSE safe_upto_bound_loop(layer, retrieve_layer_stack_names_upto(layer[1].name, upto), upto)

\* immediate_layers: the layer and its in-memory ancestors, the base first
immediate_layers(layer) == Reverse(layer)

\* immediate_layers_upto: those more recent than upto, the oldest first
immediate_layers_upto(layer, upto) ==
    LET at == {i \in DOMAIN layer : layer[i].name = upto}
        k == IF at = {} THEN Len(layer) + 1 ELSE CHOOSE i \in at : \A j \in at : i <= j
    IN Reverse(SubSeq(layer, 1, k - 1))

\* merge_string_dictionaries and merge_typed_dictionaries: the entries of all
\* the dictionaries in lexical order, each once
merge_string_dictionaries(dicts) == SortNums(UNION {Range(dicts[i]) : i \in DOMAIN dicts})

Field(structs, f) == [k \in DOMAIN structs |-> structs[k][f]]

merged_dictionaries(structs, idmaps) ==
    [node_dictionary |-> merge_string_dictionaries(Field(structs, "node_dictionary")),
     predicate_dictionary |-> merge_string_dictionaries(Field(structs, "predicate_dictionary")),
     value_dictionary |-> merge_string_dictionaries(Field(structs, "value_dictionary")),
     node_value_idmap |-> idmaps.node_value_idmap,
     predicate_idmap |-> idmaps.predicate_idmap]

\* the predicate id maps of the in-memory layers, as dictionary_rollup_upto
\* collects them
memory_predicate_idmaps(memory) == Field(memory, "node_value_idmap")

dictionary_rollup_upto(layer, memory_upto, upto) ==
    LET disk == [k \in DOMAIN retrieve_layer_stack_names_upto(memory_upto, upto) |->
                    layers[retrieve_layer_stack_names_upto(memory_upto, upto)[k]]]
        memory == immediate_layers_upto(layer, memory_upto)
    IN merged_dictionaries(disk \o memory,
        construct_idmaps_from_structures(
            Field(disk, "node_dictionary") \o Field(memory, "node_dictionary"),
            Field(disk, "predicate_dictionary") \o Field(memory, "predicate_dictionary"),
            Field(disk, "value_dictionary") \o Field(memory, "value_dictionary"),
            Field(disk, "node_value_idmap") \o Field(memory, "node_value_idmap"),
            Field(disk, "predicate_idmap") \o memory_predicate_idmaps(memory)))

\* dictionary_rollup with memory_construct_idmaps
dictionary_rollup(layer) ==
    merged_dictionaries(immediate_layers(layer),
                        construct_idmaps_from_layers(immediate_layers(layer)))

\* memory_dictionary_rollup_upto with memory_construct_idmaps_upto
memory_dictionary_rollup_upto(layer, upto) ==
    merged_dictionaries(immediate_layers_upto(layer, upto),
                        construct_idmaps_from_layers(immediate_layers_upto(layer, upto)))

\* collect() of a per-layer iterator
RECURSIVE collect_layer(_)
collect_layer(o) ==
    LET n == Opt_next(o)
    IN IF n.out = None THEN << >> ELSE <<n.out[1]>> \o collect_layer(n.self)

\* the changes of a sequence of mentions, the most recent first, in triple
\* order: the mentions of a triple cancel in pairs, and a triple that is left
\* is an Addition if its most recent mention is in a positive set, a Removal
\* if it is in a negative set
net_changes(mentions) ==
    LET all == UNION {mentions[i].pos \cup mentions[i].neg : i \in DOMAIN mentions}
        of(t) == {i \in DOMAIN mentions : t \in mentions[i].pos \cup mentions[i].neg}
        first(t) == CHOOSE i \in of(t) : \A j \in of(t) : i <= j
        left == {t \in all : Cardinality(of(t)) % 2 = 1}
    IN [k \in 1..Cardinality(left) |->
            <<IF SortTriples(left)[k] \in mentions[first(SortTriples(left)[k])].pos
              THEN "Addition" ELSE "Removal",
              SortTriples(left)[k]>>]

Tagged(changes, tag) == {changes[k][2] : k \in {i \in DOMAIN changes : changes[i][1] = tag}}

\* InternalTripleStackIterator over the additions and removals of a sequence
\* of layer structures, the most recent first
stack_changes(structs) ==
    net_changes([i \in DOMAIN structs |->
        [pos |-> Range(collect_layer(internal_triple_additions(structs[i]))),
         neg |-> Range(collect_layer(internal_triple_removals(structs[i])))]])

\* InternalTripleStackIterator::from_layer_stack(layer, upto)
from_layer_stack(layer, upto) == stack_changes(Reverse(immediate_layers_upto(layer, upto)))

\* LayerStore::layer_changes_upto(name, upto), from the files of the layers
layer_changes_upto(name, upto) ==
    stack_changes([k \in DOMAIN walk_backwards_from_disk_upto(name, upto) |->
                        layers[walk_backwards_from_disk_upto(name, upto)[k]]])

\* InternalTripleStackIterator::merge(vec![older, newer])
merge(older, newer) ==
    net_changes(<<[pos |-> Tagged(newer, "Addition"), neg |-> Tagged(newer, "Removal")],
                  [pos |-> Tagged(older, "Addition"), neg |-> Tagged(older, "Removal")]>>)

\* the structures of a rolled-up layer
rolled(parent, dicts, pos, neg) ==
    [name |-> 0, parent |-> parent,
     node_dictionary |-> dicts.node_dictionary,
     predicate_dictionary |-> dicts.predicate_dictionary,
     value_dictionary |-> dicts.value_dictionary,
     node_value_idmap |-> dicts.node_value_idmap,
     predicate_idmap |-> dicts.predicate_idmap,
     pos |-> pos, neg |-> neg]

delta_rollup(layer) ==
    rolled(None, dictionary_rollup(layer), TripleFileBuilder(triples(layer), FALSE), None)

imprecise_delta_rollup_upto(layer, upto) ==
    LET bound == safe_upto_bound(layer, upto)
        changes == from_layer_stack(layer, bound)
    IN rolled(Some(bound), memory_dictionary_rollup_upto(layer, bound),
              TripleFileBuilder(SortTriples(Tagged(changes, "Addition")), TRUE),
              Some(TripleFileBuilder(SortTriples(Tagged(changes, "Removal")), TRUE)))

delta_rollup_upto(layer, upto) ==
    LET bound == safe_upto_bound(layer, upto)
        changes == merge(layer_changes_upto(bound, upto), from_layer_stack(layer, bound))
    IN rolled(Some(upto), dictionary_rollup_upto(layer, bound, upto),
              TripleFileBuilder(SortTriples(Tagged(changes, "Addition")), TRUE),
              Some(TripleFileBuilder(SortTriples(Tagged(changes, "Removal")), TRUE)))

\* LayerStore::rollup: the rollup of the layer as the store loads it is
\* written and registered for the layer
rollup(n) ==
    /\ n \in DOMAIN layers
    /\ last.count < MaxRollups
    /\ rollups' = [rollups EXCEPT ![n] = Some(delta_rollup(get_layer(n)))]
    /\ last' = [kind |-> "rollup", name |-> n, upto |-> 0, layer |-> get_layer(n),
                count |-> last.count + 1]
    /\ UNCHANGED <<layers, iter, emitted>>
    /\ UNCHANGED <<labelVars, fileVars, storeVars, callVars>>

\* the rollup that puts the files it writes in the place of the layer's own
rollup_upto_in_place(n, upto) ==
    /\ n \in DOMAIN layers
    /\ upto \in 1..(n - 1)
    /\ last.count < MaxRollups
    /\ layers' = [layers EXCEPT ![n].pos = delta_rollup_upto(get_layer(n), upto).pos]
    /\ last' = [kind |-> "rollup_upto", name |-> n, upto |-> upto, layer |-> get_layer(n),
                count |-> last.count + 1]
    /\ UNCHANGED <<rollups, iter, emitted>>
    /\ UNCHANGED <<labelVars, fileVars, storeVars, callVars>>

\* LayerStore::rollup_upto
rollup_upto(n, upto) ==
    /\ n \in DOMAIN layers
    /\ upto \in 1..(n - 1)
    /\ last.count < MaxRollups
    /\ rollups' = [rollups EXCEPT ![n] = Some(delta_rollup_upto(get_layer(n), upto))]
    /\ last' = [kind |-> "rollup_upto", name |-> n, upto |-> upto, layer |-> get_layer(n),
                count |-> last.count + 1]
    /\ UNCHANGED <<layers, iter, emitted>>
    /\ UNCHANGED <<labelVars, fileVars, storeVars, callVars>>

\* rollup_upto and imprecise_rollup_upto for an upto that is not the layer
\* or one of its ancestors: retrieve_layer_stack_names_upto fails in
\* safe_upto_bound and the error is returned before anything is written
\* (the failing call is the last rollup of a behaviour)
rollup_upto_not_found(n, upto) ==
    /\ n \in DOMAIN layers
    /\ upto \notin Range(walk_backwards_from_disk_upto(n, 0))
    /\ last.count = MaxRollups - 1
    /\ last' = [kind |-> "not_found", name |-> n, upto |-> upto, layer |-> get_layer(n),
                count |-> last.count + 1]
    /\ UNCHANGED <<layers, rollups, iter, emitted>>
    /\ UNCHANGED <<labelVars, fileVars, storeVars, callVars>>

\* LayerStore::imprecise_rollup_upto; the rollup holds the changes above the
\* bound, and there is none to write when the bound is the layer itself
imprecise_rollup_upto(n, upto) ==
    /\ n \in DOMAIN layers
    /\ upto \in 1..(n - 1)
    /\ last.count < MaxRollups
    /\ safe_upto_bound(get_layer(n), upto) /= n
    /\ rollups' = [rollups EXCEPT ![n] = Some(imprecise_delta_rollup_upto(get_layer(n), upto))]
    /\ last' = [kind |-> "imprecise_rollup_upto", name |-> n, upto |-> upto,
                layer |-> get_layer(n), count |-> last.count + 1]
    /\ UNCHANGED <<layers, iter, emitted>>
    /\ UNCHANGED <<labelVars, fileVars, storeVars, callVars>>

\* the triples of the layers that are rolled up
RollupUniverse == {<<20, 40, 10>>, <<10, 30, 10>>}

NextRollup ==
    \/ \E adds \in SUBSET RollupUniverse : create_base_layer(adds)
    \/ \E adds \in SUBSET RollupUniverse, rems \in SUBSET RollupUniverse :
        /\ layers /= << >>
        /\ adds \cap Effective(Len(layers)) = {}
        /\ create_child_layer(adds, rems)
    \/ \E n \in LayerNames : rollup(n)
    \/ \E n \in LayerNames, upto \in LayerNames : rollup_upto(n, upto)
    \/ \E n \in LayerNames, upto \in LayerNames : imprecise_rollup_upto(n, upto)
    \/ \E n \in LayerNames : rollup_upto_not_found(n, n + 1)

(***************************************************************************)
(* The memory layer store (storage/memory.rs).  Names are drawn at random  *)
(* by the code and are modelled by the numbers 1, 2, ... in the order of   *)
(* creation.  A loaded layer is the sequence of its own [name, files] and  *)
(* those of its parents, the leaf first; files is the name under which the *)
(* files that were loaded are registered.                                  *)
(***************************************************************************)
MaxStored == 3

StoredNames == 1..MaxStored

NoCache == [n \in StoredNames |-> None]

InitStore ==
    /\ mlayers = << >>
    /\ mcache = NoCache
    /\ mgot = [name |-> 0, cached |-> FALSE, registered |-> FALSE, ret |-> None]
    /\ mcreated = [parent |-> 0, kind |-> "Ok", name |-> 0]

\* LayerCache::get_layer_from_cache; a call without a cache never hits
get_layer_from_cache(cache, cached, name) == IF cached THEN cache[name] ELSE None

\* LayerCache::cache_layer: the layer is kept under its own name
cache_layer(cache, cached, layer) ==
    IF cached THEN [cache EXCEPT ![layer[1].name] = Some(layer)] ELSE cache

\* the loop of get_layer_with_cache: the ids from id up to the first cached
\* layer or down to the base layer
RECURSIVE collect_ids(_, _, _)
collect_ids(cache, cached, id) ==
    IF get_layer_from_cache(cache, cached, id) /= None
    THEN [ids |-> << >>, cached |-> get_layer_from_cache(cache, cached, id)]
    ELSE IF mlayers[id] = None
    THEN [ids |-> <<id>>, cached |-> None]
    ELSE LET rest == collect_ids(cache, cached, mlayers[id][1])
         IN [ids |-> <<id>> \o rest.ids, cached |-> rest.cached]

\* ChildLayer::load_from_files(name, layer, files of id) for every id in
\* turn, each result put in the cache
RECURSIVE fold(_, _, _, _, _)
fold(cache, cached, name, layer, ids) ==
    IF ids = << >> THEN [cache |-> cache, ret |-> Some(layer)]
    ELSE LET l == <<[name |-> name, files |-> Head(ids)]>> \o layer
         IN fold(cache_layer(cache, cached, l), cached, name, l, Tail(ids))

\* MemoryLayerStore::get_layer_with_cache: the cache after the call and what
\* the call returns
get_layer_with_cache(cache, cached, name) ==
    IF get_layer_from_cache(cache, cached, name) /= None
    THEN [cache |-> cache, ret |-> get_layer_from_cache(cache, cached, name)]
    ELSE IF name \notin DOMAIN mlayers
    THEN [cache |-> cache, ret |-> None]
    ELSE LET found == collect_ids(cache, cached, name)
             base_id == found.ids[Len(found.ids)]
             base == <<[name |-> base_id, files |-> base_id]>>
         IN IF found.cached = None
            THEN fold(cache_layer(cache, cached, base), cached, name, base,
                      Reverse(SubSeq(found.ids, 1, Len(found.ids) - 1)))
            ELSE fold(cache, cached, name, found.cached[1], Reverse(found.ids))

\* create_base_layer: a new name is registered without a parent
store_create_base_layer ==
    /\ Len(mlayers) < MaxStored
    /\ mlayers' = Append(mlayers, None)
    /\ UNCHANGED <<mcache, mgot, mcreated>>
    /\ UNCHANGED <<labelVars, fileVars, layerVars, callVars>>

\* create_child_layer_with_cache with the check of the parent left out: a
\* name is registered whether the parent was found or not
store_create_child_layer_unchecked(parent, cached) ==
    /\ Len(mlayers) < MaxStored
    /\ mcache' = get_layer_with_cache(mcache, cached, parent).cache
    /\ IF get_layer_with_cache(mcache, cached, parent).ret = None
       THEN /\ mlayers' = Append(mlayers, None)
            /\ mcreated' = [parent |-> parent, kind |-> "NotFound", name |-> 0]
       ELSE /\ mlayers' = Append(mlayers, Some(parent))
            /\ mcreated' = [parent |-> parent, kind |-> "Ok", name |-> Len(mlayers) + 1]
    /\ UNCHANGED mgot
    /\ UNCHANGED <<labelVars, fileVars, layerVars, callVars>>

\* create_child_layer_with_cache: the parent is loaded; if there is none the
\* call fails with NotFound, otherwise a new name is registered with it as
\* parent
store_create_child_layer_with_cache(parent, cached) ==
    /\ mcache' = get_layer_with_cache(mcache, cached, parent).cache
    /\ IF get_layer_with_cache(mcache, cached, parent).ret = None
       THEN /\ mlayers' = mlayers
            /\ mcreated' = [parent |-> parent, kind |-> "NotFound", name |-> 0]
       ELSE /\ Len(mlayers) < MaxStored
            /\ mlayers' = Append(mlayers, Some(parent))
            /\ mcreated' = [parent |-> parent, kind |-> "Ok", name |-> Len(mlayers) + 1]
    /\ UNCHANGED mgot
    /\ UNCHANGED <<labelVars, fileVars, layerVars, callVars>>

\* get_layer_with_cache(name, cache)
store_get_layer_with_cache(name, cached) ==
    /\ mgot' = [name |-> name, cached |-> cached, registered |-> name \in DOMAIN mlayers,
                ret |-> get_layer_with_cache(mcache, cached, name).ret]
    /\ mcache' = get_layer_with_cache(mcache, cached, name).cache
    /\ UNCHANGED <<mlayers, mcreated>>
    /\ UNCHANGED <<labelVars, fileVars, layerVars, callVars>>

NextStore ==
    \/ store_create_base_layer
    \/ \E parent \in StoredNames, cached \in BOOLEAN :
            store_create_child_layer_with_cache(parent, cached)
    \/ \E name \in StoredNames, cached \in BOOLEAN : store_get_layer_with_cache(name, cached)

(***************************************************************************)
(* Calls on an id map.  input is the id map and the id of the first call;  *)
(* a later call is made on the id the call before returned.                *)
(***************************************************************************)
MaxIdMap == 3
MaxCalls == 2

\* IdMap::default() and the id maps the rollups write: a wavelet tree over a
\* permutation of 0..N-1
IdMaps ==
    {None} \cup UNION {{Some(p) : p \in {q \in [1..n -> 0..(n - 1)] :
                                    \A i, j \in 1..n : q[i] = q[j] => i = j}} : n \in 0..MaxIdMap}

IdMapInputs == [idmap : IdMaps, id : 0..(MaxIdMap + 1)]

\* the id of the next call
next_id == IF output = << >> THEN input.id ELSE output[Len(output)].ret

call_outer_to_inner ==
    /\ Len(output) < MaxCalls
    /\ next_id /= Panicked
    /\ output' = Append(output, [fn |-> "outer_to_inner", id |-> next_id,
                                 ret |-> outer_to_inner(input.idmap, next_id)])
    /\ UNCHANGED input
    /\ UNCHANGED <<labelVars, fileVars, layerVars, storeVars>>

call_inner_to_outer ==
    /\ Len(output) < MaxCalls
    /\ next_id /= Panicked
    /\ output' = Append(output, [fn |-> "inner_to_outer", id |-> next_id,
                                 ret |-> inner_to_outer(input.idmap, next_id)])
    /\ UNCHANGED input
    /\ UNCHANGED <<labelVars, fileVars, layerVars, storeVars>>

NextIdMap == call_outer_to_inner \/ call_inner_to_outer

(***************************************************************************)
(* The typed dictionary (structure/tfc/typed.rs).  An entry is a pair      *)
(* <<datatype, value>>; the bytes of a value are modelled by a number      *)
(* whose order is the bytewise order.  The data buffer is modelled by the  *)
(* sequence of its blocks and the offset of a block by the number of       *)
(* blocks before it, so block_offsets, type_offsets and the id offsets are *)
(* computed as in the code.  Log arrays are indexed from 0.                *)
(***************************************************************************)
BLOCK_SIZE == 8

MaxDatatype == 2

Datatypes == 0..MaxDatatype

\* the numbers of entries of a datatype segment
SegmentSizes == {0, 1, 8, 9, 16}

\* the values of a segment of n entries, and the values that are looked up
SegmentValues(n) == [j \in 1..n |-> 2 * j]

LookupValues == 1..(2 * 16 + 1)

\* the input of a builder: the entries sorted by (datatype, bytes)
sorted_entries(sizes) ==
    Flatten([k \in 1..(MaxDatatype + 1) |->
                [j \in 1..sizes[k - 1] |-> <<k - 1, SegmentValues(sizes[k - 1])[j]>>]])

entry_at(log_array, index) == log_array[index + 1]

\* SizedDictBufBuilder: a full block is written to the data buffer and the
\* offset of its end is pushed
write_block(b) ==
    [b EXCEPT !.data = Append(@, b.current_block),
              !.block_offsets = Append(@, Len(b.data) + 1),
              !.current_block = << >>]

SizedDictBufBuilder_add(b, value) ==
    LET added == [b EXCEPT !.current_block = Append(@, value), !.id_offset = @ + 1]
    IN IF Len(added.current_block) = BLOCK_SIZE THEN write_block(added) ELSE added

SizedDictBufBuilder_finalize(b) == IF b.current_block /= << >> THEN write_block(b) ELSE b

TypedDictBufBuilder_new ==
    [types_present |-> << >>, type_offsets |-> << >>, block_offsets |-> << >>,
     data |-> << >>, current_block |-> << >>, id_offset |-> 0, current_datatype |-> None]

TypedDictBufBuilder_add(b, dt, value) ==
    LET first == IF b.current_datatype = None
                 THEN [b EXCEPT !.current_datatype = Some(dt),
                                !.types_present = Append(@, dt)]
                 ELSE b
        finalized == SizedDictBufBuilder_finalize(first)
        changed == IF first.current_datatype /= Some(dt)
                   THEN [finalized EXCEPT
                            !.types_present = Append(@, dt),
                            !.type_offsets = Append(@, Len(finalized.block_offsets) - 1),
                            !.current_datatype = Some(dt)]
                   ELSE first
    IN SizedDictBufBuilder_add(changed, value)

\* add_all: one add for every entry of the iterator (the id offset is never
\* negative; reading it evaluates the builder before the next add)
RECURSIVE add_all(_, _)
add_all(b, it) ==
    IF it = << >> \/ b.id_offset < 0 THEN b
    ELSE add_all(TypedDictBufBuilder_add(b, Head(it)[1], Head(it)[2]), Tail(it))

\* finalize: the last block offset is popped and the id offset is appended
\* to the data buffer
TypedDictBufBuilder_finalize(b) ==
    LET f == SizedDictBufBuilder_finalize(b)
    IN [types_present |-> f.types_present,
        type_offsets |-> f.type_offsets,
        block_offsets |-> SubSeq(f.block_offsets, 1, Len(f.block_offsets) - 1),
        data |-> f.data,
        trailer |-> f.id_offset]

\* parse_block_control_records(data[offset]): the number of entries of the
\* block at the offset
parse_block_control_records(data, offset) == Len(data[offset + 1])

\* TypedDict::from_parts
from_parts(types_present, type_offsets, block_offsets, data) ==
    LET last_block_len(k) ==
            IF type_offsets[k] = 0 THEN parse_block_control_records(data, 0)
            ELSE parse_block_control_records(data, entry_at(block_offsets, type_offsets[k] - 1))
        tally(k) == Sum([j \in 1..k |-> BLOCK_SIZE - last_block_len(j)])
        last_gap == IF Len(block_offsets) = 0 THEN 1
                    ELSE BLOCK_SIZE - parse_block_control_records(
                            data, entry_at(block_offsets, Len(block_offsets) - 1))
    IN IF Len(types_present) = 0
       THEN [types_present |-> types_present, type_offsets |-> type_offsets,
             block_offsets |-> block_offsets, type_id_offsets |-> << >>,
             num_entries |-> 0, data |-> data]
       ELSE [types_present |-> types_present, type_offsets |-> type_offsets,
             block_offsets |-> block_offsets,
             type_id_offsets |-> [k \in DOMAIN type_offsets |->
                                    (type_offsets[k] + 1) * BLOCK_SIZE - tally(k)],
             num_entries |-> IF Len(block_offsets) = 0
                             THEN parse_block_control_records(data, 0)
                             ELSE (Len(block_offsets) + 1) * BLOCK_SIZE
                                  - tally(Len(type_offsets)) - last_gap,
             data |-> data]

\* SizedDict::from_parts(offsets, data, block_offset): the blocks of the
\* dictionary are the one at the start of its data and those at its offsets
SizedDict_blocks(d) ==
    [k \in 1..(Len(d.offsets) + 1) |->
        d.data[(IF k = 1 THEN d.block_offset ELSE d.offsets[k - 1]) + 1]]

SizedDict_num_entries(d) ==
    Len(d.offsets) * BLOCK_SIZE + Len(SizedDict_blocks(d)[Len(d.offsets) + 1])

\* SizedDict::entry(index), index from 1
SizedDict_entry(d, index) ==
    IF index > SizedDict_num_entries(d) THEN None
    ELSE Some(SizedDict_blocks(d)[((index - 1) \div BLOCK_SIZE) + 1][((index - 1) % BLOCK_SIZE) + 1])

NotFound == [kind |-> "NotFound", id |-> 0]
Found(i) == [kind |-> "Found", id |-> i]
Closest(i) == [kind |-> "Closest", id |-> i]

\* SizedDict::id(slice): Found(i) for entry i, Closest(i) for the nearest entry
\* i before the slice, NotFound if the slice is before the first entry
SizedDict_id(d, slice) ==
    LET entries == Flatten(SizedDict_blocks(d))
        upto == {i \in DOMAIN entries : entries[i] <= slice}
        nearest == CHOOSE i \in upto : \A j \in upto : j <= i
    IN IF upto = {} THEN NotFound
       ELSE IF entries[nearest] = slice THEN Found(nearest)
       ELSE Closest(nearest)

\* IdLookupResult::offset and IdLookupResult::default
IdLookupResult_offset(r, offset) == IF r = NotFound THEN r ELSE [r EXCEPT !.id = @ + offset]

IdLookupResult_default(r, default) == IF r = NotFound THEN Closest(default) ELSE r

\* TypedDict::inner_type_segment(i): the dictionary of segment i (from 0)
\* and its id offset
inner_type_segment(self, i) ==
    LET type_offset == IF i = 0 THEN 0 ELSE entry_at(self.type_offsets, i - 1)
        id_offset == IF i = 0 THEN 0 ELSE self.type_id_offsets[i]
        block_offset == IF i = 0 THEN 0 ELSE entry_at(self.block_offsets, type_offset)
        next_offset == entry_at(self.type_offsets, i)
        len == IF i = Len(self.types_present) - 1
               THEN (IF i = 0 THEN Len(self.block_offsets) - type_offset
                     ELSE Len(self.block_offsets) - type_offset - 1)
               ELSE (IF i = 0 THEN next_offset - type_offset
                     ELSE next_offset - type_offset - 1)
        logarray_slice == IF len = 0 THEN << >>
                          ELSE IF i = 0 THEN SubSeq(self.block_offsets, type_offset + 1, type_offset + len)
                          ELSE SubSeq(self.block_offsets, type_offset + 2, type_offset + 1 + len)
    IN [dict |-> [offsets |-> logarray_slice, data |-> self.data, block_offset |-> block_offset],
        offset |-> id_offset]

\* TypedDict::type_segment(dt)
type_segment(self, dt) ==
    IF \E i \in DOMAIN self.types_present : self.types_present[i] = dt
    THEN Some(inner_type_segment(
            self, (CHOOSE i \in DOMAIN self.types_present : self.types_present[i] = dt) - 1))
    ELSE None

\* the lookup that leaves the id of the segment's dictionary as it is
id_slice_no_offset(self, dt, slice) ==
    IF type_segment(self, dt) /= None
    THEN SizedDict_id(type_segment(self, dt)[1].dict, slice)
    ELSE NotFound

\* TypedDict::id_slice(dt, slice)
id_slice(self, dt, slice) ==
    IF type_segment(self, dt) /= None
    THEN LET seg == type_segment(self, dt)[1]
             result == IdLookupResult_offset(SizedDict_id(seg.dict, slice), seg.offset)
         IN IF seg.offset /= 0 THEN IdLookupResult_default(result, seg.offset) ELSE result
    ELSE NotFound

\* the index that treats an id at the end of a segment as one of the next
type_index_for_id_next(self, id) ==
    LET above == {ix \in DOMAIN self.type_id_offsets : self.type_id_offsets[ix] >= id - 1}
    IN IF above = {} THEN Len(self.type_id_offsets)
       ELSE (CHOOSE ix \in above : \A j \in above : ix <= j) - 1

\* TypedDict::type_index_for_id(id): the first segment whose successor starts
\* after the id
type_index_for_id(self, id) ==
    LET above == {ix \in DOMAIN self.type_id_offsets : self.type_id_offsets[ix] > id - 1}
    IN IF above = {} THEN Len(self.type_id_offsets)
       ELSE (CHOOSE ix \in above : \A j \in above : ix <= j) - 1

type_for_type_index(self, type_index) == entry_at(self.types_present, type_index)

\* TypedDict::entry(id)
entry(self, id) ==
    IF id > self.num_entries THEN None
    ELSE LET type_index == type_index_for_id(self, id)
             seg == inner_type_segment(self, type_index)
             e == SizedDict_entry(seg.dict, id - seg.offset)
         IN IF e = None THEN None ELSE Some(<<type_for_type_index(self, type_index), e[1]>>)

\* the dictionary parsed from what a builder wrote for the entries
build_and_parse(entries) ==
    LET b == TypedDictBufBuilder_finalize(add_all(TypedDictBufBuilder_new, entries))
    IN from_parts(b.types_present, b.type_offsets, b.block_offsets, b.data)

(***************************************************************************)
(* Calls on a typed dictionary.  input is the number of entries of every   *)
(* datatype; output holds the call made last.                              *)
(***************************************************************************)
DictInputs == [Datatypes -> SegmentSizes]

call_entry(id) ==
    /\ output = << >>
    /\ id \in 1..(Len(sorted_entries(input)) + 1)
    /\ output' = <<[fn |-> "entry", id |-> id,
                    ret |-> entry(build_and_parse(sorted_entries(input)), id)]>>
    /\ UNCHANGED input
    /\ UNCHANGED <<labelVars, fileVars, layerVars, storeVars>>

call_id(dt, v) ==
    /\ output = << >>
    /\ output' = <<[fn |-> "id", dt |-> dt, slice |-> v,
                    ret |-> id_slice(build_and_parse(sorted_entries(input)), dt, v)]>>
    /\ UNCHANGED input
    /\ UNCHANGED <<labelVars, fileVars, layerVars, storeVars>>

NextDict ==
    \/ \E id \in 1..((MaxDatatype + 1) * 16 + 1) : call_entry(id)
    \/ \E dt \in Datatypes, v \in LookupValues : call_id(dt, v)

(***************************************************************************)
(* Lexical encodings of the numeric datatypes.  A value is the word of its *)
(* bits (to_bits for the floats), a sequence of bytes from the least       *)
(* significant one; an encoding is the sequence of bytes written.          *)
(***************************************************************************)
NumericTypes == {"u32", "i32", "u64", "i64", "f32", "f64"}

width(ty) == IF ty \in {"u32", "i32", "f32"} THEN 4 ELSE 8

TopBytes == {0, 1, 127, 128, 255}

MidBytes == {0, 128, 192, 240, 248}

LowBytes == {0, 1}

\* the words of n bytes with the bytes of the sets at the most significant
\* two places and at the least significant place
Words(n) ==
    {[k \in 1..n |-> IF k = n THEN top ELSE IF k = n - 1 THEN mid
                     ELSE IF k = 1 THEN low ELSE 0] :
        top \in TopBytes, mid \in MidBytes, low \in LowBytes}

\* x ^ y and x & y on bytes and on words
byte_xor(x, y) ==
    Sum([k \in 1..8 |-> IF (x \div 2^(k - 1)) % 2 /= (y \div 2^(k - 1)) % 2
                        THEN 2^(k - 1) ELSE 0])

byte_and(x, y) ==
    Sum([k \in 1..8 |-> IF (x \div 2^(k - 1)) % 2 = 1 /\ (y \div 2^(k - 1)) % 2 = 1
                        THEN 2^(k - 1) ELSE 0])

word_xor(v, m) == [k \in DOMAIN v |-> byte_xor(v[k], m[k])]

word_and(v, m) == [k \in DOMAIN v |-> byte_and(v[k], m[k])]

\* I32_BYTE_MASK, I64_BYTE_MASK, F32_SIGN_MASK, F64_SIGN_MASK
SIGN_MASK(n) == [k \in 1..n |-> IF k = n THEN 128 ELSE 0]

\* F32_COMPLEMENT, F64_COMPLEMENT
COMPLEMENT(n) == [k \in 1..n |-> 255]

Zero(n) == [k \in 1..n |-> 0]

\* f32::is_nan, f64::is_nan: all bits of the exponent set and a mantissa
\* that is not zero
is_nan(ty, f) ==
    LET n == width(ty)
    IN /\ f[n] % 128 = 127
       /\ IF n = 4 THEN f[3] >= 128 /\ (f[3] % 128 /= 0 \/ f[2] /= 0 \/ f[1] /= 0)
          ELSE f[7] >= 240 /\ (f[7] % 16 /= 0 \/ \E k \in 1..6 : f[k] /= 0)

\* f.signum() == -1.0: signum is NaN for a NaN and has the sign of any other
\* value, of the zeros as well
signum_is_minus_one(ty, f) == ~is_nan(ty, f) /\ f[width(ty)] >= 128

\* the writer that puts the least significant byte first
write_LittleEndian(v) == v

\* write_u32::<BigEndian>, write_u64::<BigEndian>
write_BigEndian(v) == Reverse(v)

\* read_u32::<BigEndian>, read_u64::<BigEndian>
read_BigEndian(b) == Reverse(b)

\* ToLexical::to_lexical of u32, i32, u64, i64, f32 and f64
to_lexical(ty, v) ==
    LET n == width(ty)
    IN IF ty \in {"u32", "u64"} THEN write_BigEndian(v)
       ELSE IF ty \in {"i32", "i64"} THEN write_BigEndian(word_xor(SIGN_MASK(n), v))
       ELSE IF signum_is_minus_one(ty, v) THEN write_BigEndian(word_xor(v, COMPLEMENT(n)))
       ELSE write_BigEndian(word_xor(v, SIGN_MASK(n)))

\* TdbDataType::from_lexical of u32, i32, u64, i64, f32 and f64
from_lexical(ty, b) ==
    LET n == width(ty)
        i == read_BigEndian(b)
    IN IF ty \in {"u32", "u64"} THEN i
       ELSE IF ty \in {"i32", "i64"} THEN word_xor(SIGN_MASK(n), i)
       ELSE IF word_and(i, SIGN_MASK(n)) /= Zero(n) THEN word_xor(i, SIGN_MASK(n))
       ELSE word_xor(i, COMPLEMENT(n))

LexicalInputs == UNION {[ty : {ty}, a : Words(width(ty)), b : Words(width(ty))] : ty \in NumericTypes}

call_to_lexical ==
    /\ output = << >>
    /\ output' = <<[fn |-> "to_lexical", a |-> to_lexical(input.ty, input.a),
                    b |-> to_lexical(input.ty, input.b)]>>
    /\ UNCHANGED input
    /\ UNCHANGED <<labelVars, fileVars, layerVars, storeVars>>

call_from_lexical ==
    /\ Len(output) = 1
    /\ output' = Append(output, [fn |-> "from_lexical", a |-> from_lexical(input.ty, output[1].a),
                                 b |-> from_lexical(input.ty, output[1].b)])
    /\ UNCHANGED input
    /\ UNCHANGED <<labelVars, fileVars, layerVars, storeVars>>

NextLexical == call_to_lexical \/ call_from_lexical

(***************************************************************************)
(* Iteration and seeking on the triples of one layer.  input holds the     *)
(* triples the layer was built from and the iterator; output holds the     *)
(* last seek, if any, and what next() returned since.                      *)
(***************************************************************************)
SeekUniverse == {<<2, 1, 1>>, <<2, 1, 3>>, <<2, 2, 1>>, <<4, 1, 1>>, <<5, 2, 2>>}

SeekSubjects == 0..((CHOOSE s \in {t[1] : t \in SeekUniverse} : \A t \in SeekUniverse : t[1] <= s) + 1)

\* AdjacencyList::left_count: the number of groups
left_count(al) == Cardinality({k \in DOMAIN al.bits : al.bits[k]})

\* AdjacencyList::offset_for(index): the position of the first entry of
\* group index
offset_for(al, index) ==
    IF index = 1 THEN 0
    ELSE CHOOSE p \in DOMAIN al.bits :
            al.bits[p] /\ Cardinality({k \in 1..p : al.bits[k]}) = index - 1

\* MonotonicLogArray::nearest_index_of: the index of the first entry that is
\* not less than the element
nearest_index_of(log_array, element) ==
    Cardinality({k \in DOMAIN log_array : log_array[k] < element})

\* the seek that takes the subject for the position of the subject
seek_subject_ref_at_subject(self, subject) ==
    LET at_end == subject >= left_count(self.s_p_adjacency_list)
        s_p_position == IF at_end THEN right_count(self.s_p_adjacency_list)
                        ELSE offset_for(self.s_p_adjacency_list, subject + 1)
    IN [self EXCEPT !.peeked = None, !.s_position = subject,
                    !.s_p_position = s_p_position,
                    !.sp_o_position = IF at_end THEN right_count(self.sp_o_adjacency_list)
                                      ELSE offset_for(self.sp_o_adjacency_list, s_p_position + 1)]

\* InternalLayerTripleSubjectIterator::seek_subject_ref
seek_subject_ref(self, subject) ==
    IF subject = 0
    THEN [self EXCEPT !.peeked = None, !.s_position = 0, !.s_p_position = 0,
                      !.sp_o_position = 0]
    ELSE LET s_position == IF self.subjects = None THEN subject - 1
                           ELSE nearest_index_of(self.subjects[1], subject)
             s_p_position == IF s_position >= left_count(self.s_p_adjacency_list)
                             THEN right_count(self.s_p_adjacency_list)
                             ELSE offset_for(self.s_p_adjacency_list, s_position + 1)
             sp_o_position == IF s_position >= left_count(self.s_p_adjacency_list)
                              THEN right_count(self.sp_o_adjacency_list)
                              ELSE offset_for(self.sp_o_adjacency_list, s_p_position + 1)
         IN [self EXCEPT !.peeked = None, !.s_position = s_position,
                         !.s_p_position = s_p_position, !.sp_o_position = sp_o_position]

\* the while loop of seek_subject_predicate_ref: the position in s_p and
\* whether the end of the subject's group was passed
RECURSIVE seek_predicate_loop(_, _, _)
seek_predicate_loop(al, s_p_position, predicate) ==
    IF num_at_pos(al, s_p_position) < predicate
    THEN IF bit_at_pos(al, s_p_position)
         THEN [s_p_position |-> s_p_position + 1, past |-> TRUE]
         ELSE seek_predicate_loop(al, s_p_position + 1, predicate)
    ELSE [s_p_position |-> s_p_position, past |-> FALSE]

\* InternalLayerTripleSubjectIterator::seek_subject_predicate_ref
seek_subject_predicate_ref(self, subject, predicate) ==
    IF predicate = 0 THEN seek_subject_ref(self, subject)
    ELSE IF subject = 0
    THEN [self EXCEPT !.peeked = None, !.s_position = 0, !.s_p_position = 0,
                      !.sp_o_position = 0]
    ELSE LET s_position == IF self.subjects = None THEN subject - 1
                           ELSE nearest_index_of(self.subjects[1], subject)
             found == seek_predicate_loop(
                        self.s_p_adjacency_list,
                        offset_for(self.s_p_adjacency_list, s_position + 1), predicate)
         IN IF s_position >= left_count(self.s_p_adjacency_list)
            THEN [self EXCEPT !.peeked = None, !.s_position = s_position,
                              !.s_p_position = right_count(self.s_p_adjacency_list),
                              !.sp_o_position = right_count(self.sp_o_adjacency_list)]
            ELSE [self EXCEPT !.peeked = None,
                              !.s_position = IF found.past THEN s_position + 1 ELSE s_position,
                              !.s_p_position = found.s_p_position,
                              !.sp_o_position = offset_for(self.sp_o_adjacency_list,
                                                           found.s_p_position + 1)]

SeekPredicates == 0..((CHOOSE q \in {t[2] : t \in SeekUniverse} : \A t \in SeekUniverse : t[2] <= q) + 1)

\* the iterator over the triples of a layer built from the triples, a base
\* layer without a subjects file or a layer with one
layer_triples(ts, sparse) ==
    LET files == TripleFileBuilder(ts, sparse)
    IN InternalLayerTripleSubjectIterator_new(
            files.subjects, files.s_p_adjacency_list, files.sp_o_adjacency_list)

SeekInputs ==
    {[triples |-> SortTriples(ts), sparse |-> sparse,
      it |-> layer_triples(SortTriples(ts), sparse)] :
        ts \in SUBSET SeekUniverse, sparse \in BOOLEAN}

call_next ==
    /\ IF output = << >> THEN TRUE
       ELSE IF output[Len(output)].fn /= "next" THEN TRUE
       ELSE output[Len(output)].ret /= None
    /\ LET n == InternalLayerTripleSubjectIterator_next(input.it)
       IN /\ input' = [input EXCEPT !.it = n.self]
          /\ output' = Append(output, [fn |-> "next", ret |-> n.out])
    /\ UNCHANGED <<labelVars, fileVars, layerVars, storeVars>>

call_peek ==
    /\ input.it.peeked = None
    /\ input' = [input EXCEPT !.it = InternalLayerTripleSubjectIterator_peek(@)]
    /\ UNCHANGED output
    /\ UNCHANGED <<labelVars, fileVars, layerVars, storeVars>>

call_seek_subject(subject) ==
    /\ input' = [input EXCEPT !.it = seek_subject_ref(@, subject)]
    /\ output' = <<[fn |-> "seek_subject", subject |-> subject, after |-> Len(output)]>>
    /\ UNCHANGED <<labelVars, fileVars, layerVars, storeVars>>

call_seek_subject_predicate(subject, predicate) ==
    /\ input' = [input EXCEPT !.it = seek_subject_predicate_ref(@, subject, predicate)]
    /\ output' = <<[fn |-> "seek_subject_predicate", subject |-> subject,
                    predicate |-> predicate, after |-> Len(output)]>>
    /\ UNCHANGED <<labelVars, fileVars, layerVars, storeVars>>

NextSeek ==
    \/ call_next
    \/ call_peek
    \/ \E subject \in SeekSubjects, predicate \in SeekPredicates : call_seek_subject_predicate(subject, predicate)
    \/ \E subject \in SeekSubjects : call_seek_subject(subject)

(***************************************************************************)
(* The predicate iterator of one layer.  input holds the triples the layer *)
(* was built from, the predicate and the iterator; output holds what       *)
(* next() and peek() returned.                                             *)
(***************************************************************************)
MaxPeeks == 2

\* WaveletTree::lookup(predicate): the positions of s_p that hold the
\* predicate, ascending
WaveletLookup(al, predicate) ==
    SortNums({pos \in 0..(right_count(al) - 1) : num_at_pos(al, pos) = predicate})

\* InternalLayerTripleSubjectIterator::seek_s_p_pos: the iterator at the
\* first object of the pair at the position of s_p
seek_s_p_pos(self, s_p_pos) ==
    [self EXCEPT !.peeked = None,
                 !.s_position = Cardinality({k \in 1..s_p_pos : self.s_p_adjacency_list.bits[k]}),
                 !.s_p_position = s_p_pos,
                 !.sp_o_position = offset_for(self.sp_o_adjacency_list, s_p_pos + 1)]

InternalLayerTriplePredicateIterator_new(predicate_wavelet_lookup, subjects, s_p_adjacency_list, sp_o_adjacency_list) ==
    [len |-> Len(predicate_wavelet_lookup),
     predicate_wavelet_lookup |-> predicate_wavelet_lookup,
     subject_iterator |-> InternalLayerTripleSubjectIterator_new(
                            subjects, s_p_adjacency_list, sp_o_adjacency_list),
     predicate_pos |-> 0,
     peeked |-> None]

\* next_pos: the iterator after the call and what the call returned
next_pos(self) ==
    IF self.predicate_pos >= self.len THEN [self |-> self, out |-> FALSE]
    ELSE [self |-> [self EXCEPT
                        !.subject_iterator =
                            seek_s_p_pos(@, entry_at(self.predicate_wavelet_lookup,
                                                     self.predicate_pos)),
                        !.predicate_pos = @ + 1],
          out |-> TRUE]

\* Iterator::next of InternalLayerTriplePredicateIterator
InternalLayerTriplePredicateIterator_next(self) ==
    IF self.peeked /= None
    THEN [self |-> [self EXCEPT !.peeked = None], out |-> self.peeked]
    ELSE LET pos == next_pos(self)
             n == InternalLayerTripleSubjectIterator_next(pos.self.subject_iterator)
         IN IF pos.out
            THEN [self |-> [pos.self EXCEPT !.subject_iterator = n.self], out |-> n.out]
            ELSE [self |-> pos.self, out |-> None]

\* peek: self.peeked = self.next()
InternalLayerTriplePredicateIterator_peek(self) ==
    LET n == InternalLayerTriplePredicateIterator_next(self)
    IN [self |-> [n.self EXCEPT !.peeked = n.out], out |-> n.out]

\* the predicate iterator of a layer built from the triples
layer_triples_p(ts, sparse, predicate) ==
    LET files == TripleFileBuilder(ts, sparse)
    IN InternalLayerTriplePredicateIterator_new(
            WaveletLookup(files.s_p_adjacency_list, predicate),
            files.subjects, files.s_p_adjacency_list, files.sp_o_adjacency_list)

PredicateInputs ==
    {[triples |-> SortTriples(ts), sparse |-> sparse, predicate |-> predicate,
      it |-> layer_triples_p(SortTriples(ts), sparse, predicate)] :
        ts \in SUBSET SeekUniverse, sparse \in BOOLEAN, predicate \in SeekPredicates \ {0}}

\* the number of calls at the end of the output that are peeks
RECURSIVE peeks_at_end(_)
peeks_at_end(out) ==
    IF out = << >> THEN 0
    ELSE IF out[Len(out)].fn /= "peek" THEN 0
    ELSE 1 + peeks_at_end(SubSeq(out, 1, Len(out) - 1))

nones_returned(out) == Cardinality({k \in DOMAIN out : out[k].fn = "next" /\ out[k].ret = None})

call_p_next ==
    /\ nones_returned(output) < 2
    /\ LET n == InternalLayerTriplePredicateIterator_next(input.it)
       IN /\ input' = [input EXCEPT !.it = n.self]
          /\ output' = Append(output, [fn |-> "next", ret |-> n.out])
    /\ UNCHANGED <<labelVars, fileVars, layerVars, storeVars>>

call_p_peek ==
    /\ nones_returned(output) < 2
    /\ peeks_at_end(output) < MaxPeeks
    /\ LET n == InternalLayerTriplePredicateIterator_peek(input.it)
       IN /\ input' = [input EXCEPT !.it = n.self]
          /\ output' = Append(output, [fn |-> "peek", ret |-> n.out])
    /\ UNCHANGED <<labelVars, fileVars, layerVars, storeVars>>

NextPredicate == call_p_next \/ call_p_peek

(***************************************************************************)
(* Front-coded dictionary blocks (structure/tfc.rs).  A string is a        *)
(* sequence of bytes; a length is written as one byte (vbyte, for lengths  *)
(* below 128).                                                             *)
(***************************************************************************)
Alphabet == {1, 2}

StringLengths == {0, 1, 2, 3}

\* the empty string, the strings that start with the first byte value and
\* the string of the second
Strings ==
    {x \in UNION {[1..n -> Alphabet] : n \in StringLengths} : x = << >> \/ x[1] = 1 \/ Len(x) = 1}

\* the order of byte strings
StringLess(x, y) ==
    \/ Len(x) < Len(y) /\ x = SubSeq(y, 1, Len(x))
    \/ \E k \in 1..Len(x) : k <= Len(y) /\ x[k] < y[k] /\ SubSeq(x, 1, k - 1) = SubSeq(y, 1, k - 1)

SortStrings(S) ==
    [i \in 1..Cardinality(S) |-> CHOOSE x \in S : Cardinality({y \in S : StringLess(y, x)}) = i - 1]

\* the strictly ascending sequences of 1 to BLOCK_SIZE strings
BlockInputs == {SortStrings(S) : S \in {T \in SUBSET Strings : Cardinality(T) \in 1..BLOCK_SIZE}}

RECURSIVE find_common_prefix(_, _)
find_common_prefix(b1, b2) ==
    IF b1 /= << >> /\ b2 /= << >> /\ Head(b1) = Head(b2)
    THEN 1 + find_common_prefix(Tail(b1), Tail(b2))
    ELSE 0

\* build_block_unchecked: the number of entries, the length of the first,
\* for every other entry what it shares with the one before and the length
\* of its suffix, then the suffixes
build_block_unchecked(slices) ==
    LET common_prefix(i) == find_common_prefix(slices[i - 1], slices[i])
        suffix(i) == IF i = 1 THEN slices[1]
                     ELSE SubSeq(slices[i], common_prefix(i) + 1, Len(slices[i]))
    IN <<Len(slices), Len(slices[1])>>
       \o Flatten([k \in 1..(Len(slices) - 1) |-> <<common_prefix(k + 1), Len(suffix(k + 1))>>])
       \o Flatten([i \in 1..Len(slices) |-> suffix(i)])

\* TfcBlockHeader::parse: the header and what is left of the buffer
TfcBlockHeader_parse(buf) ==
    LET num_entries == buf[1]
        sizes == [i \in 1..BLOCK_SIZE |-> IF i <= num_entries THEN buf[2 * i] ELSE 0]
        shareds == [i \in 1..(BLOCK_SIZE - 1) |-> IF i < num_entries THEN buf[2 * i + 1] ELSE 0]
    IN [header |-> [num_entries |-> num_entries, buffer_length |-> Sum(sizes),
                    sizes |-> sizes, shareds |-> shareds],
        rest |-> SubSeq(buf, 2 * num_entries + 1, Len(buf))]

\* TfcBlock::parse
TfcBlock_parse(bytes) ==
    LET parsed == TfcBlockHeader_parse(bytes)
    IN IF Len(parsed.rest) < parsed.header.buffer_length THEN "NotEnoughData"
       ELSE [header |-> parsed.header,
             data |-> SubSeq(parsed.rest, 1, parsed.header.buffer_length)]

\* the loop that takes every shared length as it is
RECURSIVE entry_shareds_unclamped(_, _, _, _)
entry_shareds_unclamped(shareds, i, last_shared, v) ==
    IF i < 0 \/ last_shared = 0 THEN v
    ELSE IF shareds[i + 1] = 0 THEN v
    ELSE entry_shareds_unclamped(shareds, i - 1, shareds[i + 1], Append(v, shareds[i + 1]))

\* the loop of TfcBlock::entry over the entries before index - 1, the last
\* first: what the entry takes from each
RECURSIVE entry_shareds(_, _, _, _)
entry_shareds(shareds, i, last_shared, v) ==
    IF i < 0 \/ last_shared = 0 THEN v
    ELSE IF shareds[i + 1] = 0 THEN v
    ELSE IF shareds[i + 1] < last_shared
    THEN entry_shareds(shareds, i - 1, shareds[i + 1], Append(v, shareds[i + 1]))
    ELSE entry_shareds(shareds, i - 1, last_shared, Append(v, last_shared))

\* TfcBlock::entry(index), index from 0: the slices of the entry
TfcBlock_entry(self, index) ==
    LET sizes == self.header.sizes
        last_shared == self.header.shareds[index]
        v == entry_shareds(self.header.shareds, index - 2, last_shared,
                           IF last_shared /= 0 THEN <<last_shared>> ELSE << >>)
        start == index - Len(v)
        RECURSIVE slices_from(_, _, _, _)
        slices_from(ix, taken, offset, slices) ==
            IF ix = Len(v)
            THEN Append(slices, SubSeq(self.data, offset + 1, offset + sizes[index + 1]))
            ELSE LET have_to_take == Reverse(v)[ix + 1] - taken
                 IN slices_from(ix + 1, taken + have_to_take, offset + sizes[start + ix + 1],
                                IF have_to_take = 0 THEN slices
                                ELSE Append(slices, SubSeq(self.data, offset + 1,
                                                           offset + have_to_take)))
    IN IF index = 0 THEN <<SubSeq(self.data, 1, sizes[1])>>
       ELSE slices_from(0, 0, Sum(SubSeq(sizes, 1, start)), << >>)

\* TfcDictEntry::to_vec
to_vec(entry_slices) == Flatten(entry_slices)

call_block_entry(index) ==
    /\ output = << >>
    /\ index < Len(input)
    /\ output' = <<[fn |-> "entry", index |-> index,
                    ret |-> to_vec(TfcBlock_entry(TfcBlock_parse(build_block_unchecked(input)),
                                                  index))]>>
    /\ UNCHANGED input
    /\ UNCHANGED <<labelVars, fileVars, layerVars, storeVars>>

NextBlock == \E index \in 0..(BLOCK_SIZE - 1) : call_block_entry(index)

(***************************************************************************)
(* The triple stream over the files of a base layer (base.rs).  input      *)
(* holds the triples the layer was built from and the stream; output holds *)
(* what poll_next returned.                                                *)
(***************************************************************************)
\* adjacency_list_stream_pairs: the pairs (left, right) of an adjacency
\* list in order, without the entries that are 0
adjacency_list_stream_pairs(al) ==
    SelectSeq([k \in DOMAIN al.nums |->
                <<Cardinality({j \in 1..(k - 1) : al.bits[j]}) + 1, al.nums[k]>>],
              LAMBDA pair : pair[2] /= 0)

\* the error of io::ErrorKind::UnexpectedEof
UnexpectedEof == <<"UnexpectedEof">>

BaseTripleStream_new(s_p_stream, sp_o_stream) ==
    [s_p_stream |-> s_p_stream, sp_o_stream |-> sp_o_stream,
     last_s_p |-> <<0, 0>>, last_sp |-> 0]

\* the stream that takes the next pair of s_p for every pair of sp_o
poll_next_always_advance(self) ==
    IF self.sp_o_stream = << >> THEN [self |-> self, out |-> None]
    ELSE IF self.s_p_stream = << >> THEN [self |-> self, out |-> Some(UnexpectedEof)]
    ELSE [self |-> [self EXCEPT !.s_p_stream = Tail(@), !.sp_o_stream = Tail(@),
                                !.last_s_p = Head(self.s_p_stream),
                                !.last_sp = Head(self.sp_o_stream)[1]],
          out |-> Some(<<Head(self.s_p_stream)[1], Head(self.s_p_stream)[2],
                         Head(self.sp_o_stream)[2]>>)]

\* the stream that drops the pending pair of sp_o when s_p has ended
poll_next_consume_on_eof(self) ==
    IF self.sp_o_stream = << >> THEN [self |-> self, out |-> None]
    ELSE LET sp == Head(self.sp_o_stream)[1]
             o == Head(self.sp_o_stream)[2]
         IN IF sp > self.last_sp
            THEN IF self.s_p_stream = << >>
                 THEN [self |-> [self EXCEPT !.sp_o_stream = Tail(@)],
                       out |-> Some(UnexpectedEof)]
                 ELSE LET s == Head(self.s_p_stream)[1]
                          p == Head(self.s_p_stream)[2]
                      IN [self |-> [self EXCEPT !.s_p_stream = Tail(@),
                                                !.sp_o_stream = Tail(@),
                                                !.last_s_p = <<s, p>>,
                                                !.last_sp = sp],
                          out |-> Some(<<s, p, o>>)]
            ELSE [self |-> [self EXCEPT !.sp_o_stream = Tail(@)],
                  out |-> Some(<<self.last_s_p[1], self.last_s_p[2], o>>)]

\* BaseTripleStream::poll_next on streams that are ready
poll_next(self) ==
    IF self.sp_o_stream = << >> THEN [self |-> self, out |-> None]
    ELSE LET sp == Head(self.sp_o_stream)[1]
             o == Head(self.sp_o_stream)[2]
         IN IF sp > self.last_sp
            THEN IF self.s_p_stream = << >>
                 THEN [self |-> self, out |-> Some(UnexpectedEof)]
                 ELSE LET s == Head(self.s_p_stream)[1]
                          p == Head(self.s_p_stream)[2]
                      IN [self |-> [self EXCEPT !.s_p_stream = Tail(@),
                                                !.sp_o_stream = Tail(@),
                                                !.last_s_p = <<s, p>>,
                                                !.last_sp = sp],
                          out |-> Some(<<s, p, o>>)]
            ELSE [self |-> [self EXCEPT !.sp_o_stream = Tail(@)],
                  out |-> Some(<<self.last_s_p[1], self.last_s_p[2], o>>)]

\* open_base_triple_stream over the files of the base layer built from the
\* triples
open_base_triple_stream(ts) ==
    LET files == TripleFileBuilder(ts, FALSE)
    IN BaseTripleStream_new(adjacency_list_stream_pairs(files.s_p_adjacency_list),
                            adjacency_list_stream_pairs(files.sp_o_adjacency_list))

StreamInputs ==
    {[triples |-> SortTriples(ts), stream |-> open_base_triple_stream(SortTriples(ts))] :
        ts \in SUBSET SeekUniverse}

call_poll_next ==
    /\ IF output = << >> THEN TRUE
       ELSE output[Len(output)].ret /= None /\ output[Len(output)].ret /= Some(UnexpectedEof)
    /\ LET n == poll_next(input.stream)
       IN /\ input' = [input EXCEPT !.stream = n.self]
          /\ output' = Append(output, [fn |-> "poll_next", ret |-> n.out])
    /\ UNCHANGED <<labelVars, fileVars, layerVars, storeVars>>

NextStream == call_poll_next

(***************************************************************************)
(* Peeking at the iterators of one layer.  input holds the kind of the     *)
(* iterator, the triples the layer was built from, the iterator as it was  *)
(* made and the iterator as the calls have left it; output holds what      *)
(* peek() and next() returned, in the order of the calls.                  *)
(***************************************************************************)
MaxPeekTriples == 3

PeekInputs ==
    {[kind |-> "subject", triples |-> SortTriples(ts), start |-> layer_triples(SortTriples(ts), sparse),
      it |-> layer_triples(SortTriples(ts), sparse)] :
        ts \in {x \in SUBSET SeekUniverse : Cardinality(x) <= MaxPeekTriples}, sparse \in BOOLEAN}
    \cup
    {[kind |-> "predicate", triples |-> SortTriples(ts),
      start |-> layer_triples_p(SortTriples(ts), sparse, predicate),
      it |-> layer_triples_p(SortTriples(ts), sparse, predicate)] :
        ts \in {x \in SUBSET SeekUniverse : Cardinality(x) <= MaxPeekTriples}, sparse \in BOOLEAN,
        predicate \in SeekPredicates \ {0}}

\* it.peek() on the iterator of the kind: the iterator after the call and
\* what the call returned
peek_of(kind, it) ==
    IF kind = "subject"
    THEN [self |-> InternalLayerTripleSubjectIterator_peek(it),
          out |-> InternalLayerTripleSubjectIterator_peek(it).peeked]
    ELSE InternalLayerTriplePredicateIterator_peek(it)

\* it.next() on the iterator of the kind
next_of(kind, it) ==
    IF kind = "subject" THEN InternalLayerTripleSubjectIterator_next(it)
    ELSE InternalLayerTriplePredicateIterator_next(it)

iterator_next ==
    /\ nones_returned(output) < 2
    /\ input' = [input EXCEPT !.it = next_of(input.kind, @).self]
    /\ output' = Append(output, [fn |-> "next", ret |-> next_of(input.kind, input.it).out])
    /\ UNCHANGED <<labelVars, fileVars, layerVars, storeVars>>

iterator_peek ==
    /\ nones_returned(output) < 2
    /\ peeks_at_end(output) < MaxPeeks
    /\ input' = [input EXCEPT !.it = peek_of(input.kind, @).self]
    /\ output' = Append(output, [fn |-> "peek", ret |-> peek_of(input.kind, input.it).out])
    /\ UNCHANGED <<labelVars, fileVars, layerVars, storeVars>>

NextPeek == iterator_next \/ iterator_peek

(***************************************************************************)
(* Seeking on the cross-layer iterator.  input holds the changes of the    *)
(* layers of a stack, the base first, and the iterator over its leaf;      *)
(* output holds the last seek and what next() returned after it.  The      *)
(* stacks are the well-formed ones: a layer removes only what is effective *)
(* in its parent and adds only what is not.                                *)
(***************************************************************************)
MaxSeekChanges == 3

MergeSeekUniverse == {<<2, 1, 1>>, <<2, 2, 1>>, <<4, 1, 1>>}

\* the effective triples of a stack of changes, the base first
RECURSIVE EffectiveOf(_)
EffectiveOf(stack) ==
    IF stack = << >> THEN {}
    ELSE (EffectiveOf(SubSeq(stack, 1, Len(stack) - 1)) \cup stack[Len(stack)].additions)
            \ stack[Len(stack)].removals

\* the changes a child layer on top of the stack can hold
ChildChanges(stack) ==
    {[additions |-> adds, removals |-> rems] :
        adds \in SUBSET (MergeSeekUniverse \ EffectiveOf(stack)),
        rems \in SUBSET EffectiveOf(stack)}

ChangesOf(stack) ==
    Sum([i \in DOMAIN stack |->
            Cardinality(stack[i].additions) + Cardinality(stack[i].removals)])

MergeSeekStacks ==
    LET bases == {<<[additions |-> adds, removals |-> {}]>> : adds \in SUBSET MergeSeekUniverse}
        children == UNION {{Append(b, c) : c \in ChildChanges(b)} : b \in bases}
        grandchildren == UNION {{Append(b, c) : c \in ChildChanges(b)} : b \in children}
    IN {s \in bases \cup children \cup grandchildren : ChangesOf(s) <= MaxSeekChanges}

\* the layer loaded from the stack, the leaf first: the files of the base
\* layer hold no subjects and no removals, those of a child layer hold both
layer_of(stack) ==
    [i \in DOMAIN stack |->
        LET c == stack[Len(stack) + 1 - i]
            child == Len(stack) + 1 - i > 1
        IN [pos |-> TripleFileBuilder(SortTriples(c.additions), child),
            neg |-> IF child THEN Some(TripleFileBuilder(SortTriples(c.removals), TRUE))
                    ELSE None]]

MergeSeekInputs ==
    {[stack |-> s, it |-> from_layer(layer_of(s))] : s \in MergeSeekStacks}

\* OptInternalLayerTripleSubjectIterator::seek_subject_predicate_ref
Opt_seek_subject_predicate_ref(o, subject, predicate) ==
    IF o = None THEN None ELSE Some(seek_subject_predicate_ref(o[1], subject, predicate))

Opt_seek_subject_ref(o, subject) ==
    IF o = None THEN None ELSE Some(seek_subject_ref(o[1], subject))

\* InternalTripleSubjectIterator::seek_subject_predicate
seek_subject_predicate(self, subject, predicate) ==
    [positives |-> [i \in DOMAIN self.positives |->
                    Opt_seek_subject_predicate_ref(self.positives[i], subject, predicate)],
     negatives |-> [i \in DOMAIN self.negatives |->
                    Opt_seek_subject_predicate_ref(self.negatives[i], subject, predicate)]]

\* InternalTripleSubjectIterator::seek_subject
seek_subject(self, subject) ==
    [positives |-> [i \in DOMAIN self.positives |->
                    Opt_seek_subject_ref(self.positives[i], subject)],
     negatives |-> [i \in DOMAIN self.negatives |->
                    Opt_seek_subject_ref(self.negatives[i], subject)]]

merge_next ==
    /\ IF output = << >> THEN TRUE
       ELSE IF output[Len(output)].fn /= "next" THEN TRUE
       ELSE output[Len(output)].ret /= None
    /\ LET n == InternalTripleSubjectIterator_next(input.it)
       IN /\ input' = [input EXCEPT !.it = n.self]
          /\ output' = Append(output, [fn |-> "next", ret |-> n.out])
    /\ UNCHANGED <<labelVars, fileVars, layerVars, storeVars>>

\* a seek at any point of an iteration that has not seen a seek
merge_seek_subject_predicate(subject, predicate) ==
    /\ IF output = << >> THEN TRUE ELSE output[1].fn = "next"
    /\ input' = [input EXCEPT !.it = seek_subject_predicate(@, subject, predicate)]
    /\ output' = <<[fn |-> "seek_subject_predicate", subject |-> subject,
                    predicate |-> predicate, after |-> Len(output)]>>
    /\ UNCHANGED <<labelVars, fileVars, layerVars, storeVars>>

merge_seek_subject(subject) ==
    /\ IF output = << >> THEN TRUE ELSE output[1].fn = "next"
    /\ input' = [input EXCEPT !.it = seek_subject(@, subject)]
    /\ output' = <<[fn |-> "seek_subject", subject |-> subject, predicate |-> 0,
                    after |-> Len(output)]>>
    /\ UNCHANGED <<labelVars, fileVars, layerVars, storeVars>>

NextMergeSeek ==
    \/ merge_next
    \/ \E subject \in SeekSubjects, predicate \in SeekPredicates :
            merge_seek_subject_predicate(subject, predicate)
    \/ \E subject \in SeekSubjects : merge_seek_subject(subject)

(***************************************************************************)
(* The construction of the id maps of a rollup (layer/id_map.rs).  input   *)
(* holds the dictionaries and the id maps of two source layers, the older  *)
(* first; no entry is in two dictionaries of a kind.  An id map is None or *)
(* a permutation of the ids of its layer.                                  *)
(***************************************************************************)
ConstructNodes == {1, 2}

ConstructValues == {1}

ConstructPredicates == {1, 2}

PermutationsOf(n) == {q \in [1..n -> 0..(n - 1)] : \A i, j \in 1..n : q[i] = q[j] => i = j}

IdMapsOf(n) == {None} \cup {Some(q) : q \in PermutationsOf(n)}

\* the entries a placement puts in the dictionary of layer ix, ascending
Placed(placement, ix) == SortNums({e \in DOMAIN placement : placement[e] = ix})

ConstructDicts ==
    {[node_dicts |-> <<Placed(n, 1), Placed(n, 2)>>,
      value_dicts |-> <<Placed(v, 1), Placed(v, 2)>>,
      predicate_dicts |-> <<Placed(p, 1), Placed(p, 2)>>] :
        n \in [ConstructNodes -> 0..2], v \in [ConstructValues -> 0..2],
        p \in [ConstructPredicates -> 0..2]}

ConstructInputs ==
    UNION {{[node_dicts |-> d.node_dicts, value_dicts |-> d.value_dicts,
             predicate_dicts |-> d.predicate_dicts,
             node_value_idmaps |-> <<m1, m2>>, predicate_idmaps |-> <<q1, q2>>] :
                m1 \in IdMapsOf(Len(d.node_dicts[1]) + Len(d.value_dicts[1])),
                m2 \in IdMapsOf(Len(d.node_dicts[2]) + Len(d.value_dicts[2])),
                q1 \in IdMapsOf(Len(d.predicate_dicts[1])),
                q2 \in IdMapsOf(Len(d.predicate_dicts[2]))} : d \in ConstructDicts}

call_construct_idmaps_from_structures ==
    /\ output = << >>
    /\ output' = <<construct_idmaps_from_structures(
                        input.node_dicts, input.predicate_dicts, input.value_dicts,
                        input.node_value_idmaps, input.predicate_idmaps)>>
    /\ UNCHANGED input
    /\ UNCHANGED <<labelVars, fileVars, layerVars, storeVars>>

NextConstruct == call_construct_idmaps_from_structures

(***************************************************************************)
(* A base triple stream over an s_p stream that ends early.  input holds   *)
(* the triples the files were built from and the stream, whose s_p stream  *)
(* is cut after some of its pairs; output holds the result of every poll.  *)
(* Polling goes on after an error and after the end.                       *)
(***************************************************************************)
MaxPolls == 4

TruncatedInputs ==
    UNION {LET whole == open_base_triple_stream(SortTriples(ts))
           IN {[triples |-> SortTriples(ts),
                stream |-> [whole EXCEPT !.s_p_stream = SubSeq(@, 1, k)]] :
                   k \in 0..Len(whole.s_p_stream)} :
        ts \in SUBSET SeekUniverse}

call_poll_next_truncated ==
    /\ Len(output) < MaxPolls
    /\ LET n == poll_next(input.stream)
       IN /\ input' = [input EXCEPT !.stream = n.self]
          /\ output' = Append(output, [fn |-> "poll_next", ret |-> n.out])
    /\ UNCHANGED <<labelVars, fileVars, layerVars, storeVars>>

NextTruncated == call_poll_next_truncated

(***************************************************************************)
(* Parsing a block from any bytes (tfc.rs).  input holds the bytes and     *)
(* whether the build checks arithmetic overflow; output holds what         *)
(* TfcBlock::parse returned.  A variable-byte number takes one byte here.  *)
(***************************************************************************)
MaxParseLen == 18

ParseCounts == {0, 1, 2, BLOCK_SIZE, BLOCK_SIZE + 1, 255}

ParseInputs ==
    {[bytes |-> bs, overflow_checks |-> b] :
        bs \in {<< >>} \cup {<<n>> \o [i \in 1..len |-> fill] :
                        n \in ParseCounts, len \in 0..MaxParseLen, fill \in {0, 1}},
        b \in BOOLEAN}

\* vbyte::decode_buf: the number and what is left of the buffer
decode_buf(buf) ==
    IF buf = << >> THEN [kind |-> "UnexpectedEndOfBuffer"]
    ELSE [kind |-> "Ok", val |-> Head(buf), rest |-> Tail(buf)]

\* the loop of TfcBlockHeader::parse from iteration i on: both numbers are
\* decoded before sizes[i + 1] is assigned, and the assignment panics past
\* the end of the array
RECURSIVE parse_entries(_, _, _, _, _)
parse_entries(buf, i, n, sizes, shareds) ==
    IF i >= n THEN [kind |-> "Ok", sizes |-> sizes, shareds |-> shareds, rest |-> buf]
    ELSE LET shared == decode_buf(buf)
         IN IF shared.kind /= "Ok" THEN [kind |-> "NotEnoughData"]
            ELSE LET size == decode_buf(shared.rest)
                 IN IF size.kind /= "Ok" THEN [kind |-> "NotEnoughData"]
                    ELSE IF i + 1 >= BLOCK_SIZE THEN [kind |-> "Panic"]
                    ELSE parse_entries(size.rest, i + 1, n,
                                       [sizes EXCEPT ![i + 2] = size.val],
                                       [shareds EXCEPT ![i + 1] = shared.val])

\* TfcBlockHeader::parse on any buffer.  get_u8 panics on an empty buffer;
\* num_entries - 1 is a subtraction of u8, which for num_entries = 0 panics
\* in a build with overflow checks and wraps to 255 in one without
TfcBlockHeader_parse_any(buf, overflow_checks) ==
    IF buf = << >> THEN [kind |-> "Panic"]
    ELSE LET num_entries == Head(buf)
             first_size == decode_buf(Tail(buf))
         IN IF first_size.kind /= "Ok" THEN [kind |-> "NotEnoughData"]
            ELSE IF num_entries = 0 /\ overflow_checks THEN [kind |-> "Panic"]
            ELSE LET parsed == parse_entries(first_size.rest, 0, (num_entries - 1) % 256,
                                             [i \in 1..BLOCK_SIZE |->
                                                 IF i = 1 THEN first_size.val ELSE 0],
                                             [i \in 1..(BLOCK_SIZE - 1) |-> 0])
                 IN IF parsed.kind /= "Ok" THEN parsed
                    ELSE [kind |-> "Ok",
                          header |-> [num_entries |-> num_entries,
                                      buffer_length |-> Sum(parsed.sizes),
                                      sizes |-> parsed.sizes, shareds |-> parsed.shareds],
                          rest |-> parsed.rest]

\* TfcBlock::parse on any buffer
TfcBlock_parse_any(buf, overflow_checks) ==
    LET parsed == TfcBlockHeader_parse_any(buf, overflow_checks)
    IN IF parsed.kind /= "Ok" THEN parsed
       ELSE IF Len(parsed.rest) < parsed.header.buffer_length THEN [kind |-> "NotEnoughData"]
       ELSE [kind |-> "Ok", header |-> parsed.header,
             data |-> SubSeq(parsed.rest, 1, parsed.header.buffer_length)]

call_parse ==
    /\ output = << >>
    /\ output' = <<[fn |-> "parse",
                    ret |-> TfcBlock_parse_any(input.bytes, input.overflow_checks)]>>
    /\ UNCHANGED input
    /\ UNCHANGED <<labelVars, fileVars, layerVars, storeVars>>

NextParse == call_parse

(***************************************************************************)
(* The buffers over a dictionary entry (tfc.rs).  An entry is a sequence   *)
(* of slices of bytes.  input holds the kind of the buffer and the buffer, *)
(* output the last advance and the number of bytes advanced over so far.   *)
(***************************************************************************)
MaxSlices == 3

Slices == {<< >>, <<1>>, <<2>>, <<1, 2>>}

Entries == UNION {[1..n -> Slices] : n \in 0..MaxSlices}

\* TfcDictEntry::as_buf and TfcDictEntry::into_buf
as_buf(ent) == [entry |-> ent, slice_ix |-> 0, pos_in_slice |-> 0]

into_buf(ent) == [entry |-> ent, slice_ix |-> 0, pos_in_slice |-> 0]

EntryBufInputs ==
    {[kind |-> "TfcEntryBuf", buf |-> as_buf(e)] : e \in Entries}
    \cup {[kind |-> "OwnedTfcEntryBuf", buf |-> into_buf(e)] : e \in Entries}

calculate_remaining(ent, slice_ix, pos_in_slice) ==
    Sum([i \in 1..(Len(ent) - slice_ix) |-> Len(ent[slice_ix + i])]) - pos_in_slice

calculate_chunk(ent, slice_ix, pos_in_slice) ==
    IF slice_ix >= Len(ent) THEN << >>
    ELSE SubSeq(ent[slice_ix + 1], pos_in_slice + 1, Len(ent[slice_ix + 1]))

\* calculate_advance: the new slice_ix and pos_in_slice.  In the loop the
\* test entry.0.len() >= *slice_ix holds for every slice_ix the buffer can
\* have, so the first iteration sets pos_in_slice to 0 and leaves the loop;
\* past it, entry.0[*slice_ix] would be out of bounds
calculate_advance(ent, slice_ix, pos_in_slice, cnt) ==
    IF slice_ix < Len(ent)
    THEN LET remaining_in_slice == Len(ent[slice_ix + 1]) - pos_in_slice
         IN IF remaining_in_slice > cnt
            THEN [slice_ix |-> slice_ix, pos_in_slice |-> pos_in_slice + cnt]
            ELSE IF Len(ent) >= slice_ix + 1
                 THEN [slice_ix |-> slice_ix + 1, pos_in_slice |-> 0]
                 ELSE [slice_ix |-> Panicked, pos_in_slice |-> Panicked]
    ELSE [slice_ix |-> slice_ix, pos_in_slice |-> pos_in_slice]

\* Buf::remaining, Buf::chunk and Buf::advance of both buffers
buf_remaining(self) == calculate_remaining(self.entry, self.slice_ix, self.pos_in_slice)

buf_chunk(self) == calculate_chunk(self.entry, self.slice_ix, self.pos_in_slice)

buf_advance(self, cnt) ==
    LET n == calculate_advance(self.entry, self.slice_ix, self.pos_in_slice, cnt)
    IN [self EXCEPT !.slice_ix = n.slice_ix, !.pos_in_slice = n.pos_in_slice]

call_buf_advance(cnt) ==
    /\ cnt <= buf_remaining(input.buf)
    /\ input' = [input EXCEPT !.buf = buf_advance(@, cnt)]
    /\ output' = <<[fn |-> "advance", cnt |-> cnt,
                    advanced |-> cnt + IF output = << >> THEN 0 ELSE output[1].advanced]>>
    /\ UNCHANGED <<labelVars, fileVars, layerVars, storeVars>>

NextEntryBuf == \E cnt \in 0..(2 * MaxSlices) : call_buf_advance(cnt)

(***************************************************************************)
(* Comparing dictionary entries (tfc.rs).  input holds two entries, each a *)
(* sequence of slices; output holds what cmp, eq or buf_eq returned, the   *)
(* second entry being the buffer of buf_eq.  A call that panics returns    *)
(* the kind "Panic".                                                       *)
(***************************************************************************)
EntryPairs == {[a |-> ea, b |-> eb] : ea \in Entries, eb \in Entries}

\* the comparison of byte strings
bytes_cmp(x, y) ==
    IF x = y THEN "Equal" ELSE IF StringLess(x, y) THEN "Less" ELSE "Greater"

TfcDictEntry_len(self) == Sum([i \in 1..Len(self) |-> Len(self[i])])

\* the loop of cmp: the parts at hand and the parts to come on each side
RECURSIVE cmp_loop(_, _, _, _)
cmp_loop(part1, part2, it1, it2) ==
    IF Len(part1) = Len(part2)
    THEN IF bytes_cmp(part1, part2) /= "Equal" THEN bytes_cmp(part1, part2)
         ELSE IF it1 /= << >> /\ it2 /= << >>
              THEN cmp_loop(Head(it1), Head(it2), Tail(it1), Tail(it2))
         ELSE IF it1 = << >> /\ it2 = << >> THEN "Equal"
         ELSE IF it1 = << >> THEN "Less"
         ELSE "Greater"
    ELSE IF Len(part1) < Len(part2)
    THEN LET part2_slice == SubSeq(part2, 1, Len(part1))
         IN IF bytes_cmp(part1, part2_slice) /= "Equal" THEN bytes_cmp(part1, part2_slice)
            ELSE IF it1 = << >> THEN "Less"
            ELSE cmp_loop(Head(it1), SubSeq(part2, Len(part1) + 1, Len(part2)), Tail(it1), it2)
    ELSE LET part1_slice == SubSeq(part1, 1, Len(part2))
         IN IF bytes_cmp(part1_slice, part2) /= "Equal" THEN bytes_cmp(part1_slice, part2)
            ELSE IF it2 = << >> THEN "Greater"
            ELSE cmp_loop(SubSeq(part1, Len(part2) + 1, Len(part1)), Head(it2), it1, Tail(it2))

\* Ord::cmp of TfcDictEntry; unwrap() panics on an entry without parts
TfcDictEntry_cmp(self, other) ==
    IF TfcDictEntry_len(self) = 0 /\ TfcDictEntry_len(other) = 0
    THEN [kind |-> "Ok", val |-> "Equal"]
    ELSE IF self = << >> \/ other = << >> THEN [kind |-> "Panic"]
    ELSE [kind |-> "Ok", val |-> cmp_loop(Head(self), Head(other), Tail(self), Tail(other))]

\* PartialEq::eq of TfcDictEntry
TfcDictEntry_eq(self, other) ==
    IF TfcDictEntry_len(self) /= TfcDictEntry_len(other) THEN [kind |-> "Ok", val |-> FALSE]
    ELSE IF TfcDictEntry_cmp(self, other).kind = "Panic" THEN [kind |-> "Panic"]
    ELSE [kind |-> "Ok", val |-> TfcDictEntry_cmp(self, other).val = "Equal"]

\* the loop of buf_eq: the part at hand, the parts to come and the buffer.
\* The assertion panics when parts are left, the match panics on a part
\* longer than the chunk, and unwrap() panics when no part is left
RECURSIVE buf_eq_loop(_, _, _)
buf_eq_loop(part, it, b) ==
    LET slice == buf_chunk(b)
    IN IF Len(part) < Len(slice)
       THEN IF part /= SubSeq(slice, 1, Len(part)) THEN [kind |-> "Ok", val |-> FALSE]
            ELSE IF it = << >> THEN [kind |-> "Panic"]
            ELSE buf_eq_loop(Head(it), Tail(it), buf_advance(b, Len(part)))
       ELSE IF Len(part) = Len(slice)
       THEN IF part /= slice THEN [kind |-> "Ok", val |-> FALSE]
            ELSE IF it /= << >> THEN [kind |-> "Panic"]
            ELSE [kind |-> "Ok", val |-> TRUE]
       ELSE [kind |-> "Panic"]

\* TfcDictEntry::buf_eq
TfcDictEntry_buf_eq(self, b) ==
    IF TfcDictEntry_len(self) /= buf_remaining(b) THEN [kind |-> "Ok", val |-> FALSE]
    ELSE IF TfcDictEntry_len(self) = 0 THEN [kind |-> "Ok", val |-> TRUE]
    ELSE buf_eq_loop(Head(self), Tail(self), b)

call_cmp ==
    /\ output = << >>
    /\ output' = <<[fn |-> "cmp", ret |-> TfcDictEntry_cmp(input.a, input.b)]>>
    /\ UNCHANGED input
    /\ UNCHANGED <<labelVars, fileVars, layerVars, storeVars>>

call_eq ==
    /\ output = << >>
    /\ output' = <<[fn |-> "eq", ret |-> TfcDictEntry_eq(input.a, input.b)]>>
    /\ UNCHANGED input
    /\ UNCHANGED <<labelVars, fileVars, layerVars, storeVars>>

call_buf_eq ==
    /\ output = << >>
    /\ output' = <<[fn |-> "buf_eq", ret |-> TfcDictEntry_buf_eq(input.a, as_buf(input.b))]>>
    /\ UNCHANGED input
    /\ UNCHANGED <<labelVars, fileVars, layerVars, storeVars>>

NextEntryCmp == call_cmp \/ call_eq \/ call_buf_eq

(***************************************************************************)
(* Specifications.                                                         *)
(***************************************************************************)
InitStores == InitLabels /\ InitFile /\ InitLayers /\ InitStore

Init == InitStores /\ input = None /\ output = << >>

SpecLabels == Init /\ [][NextLabels]_vars

SpecFile == Init /\ [][NextFile]_vars

SpecMerge == Init /\ [][NextMerge]_vars

SpecRollup == Init /\ [][NextRollup]_vars

SpecStore == Init /\ [][NextStore]_vars

InitIdMap == InitStores /\ input \in IdMapInputs /\ output = << >>

SpecIdMap == InitIdMap /\ [][NextIdMap]_vars

InitDict == InitStores /\ input \in DictInputs /\ output = << >>

SpecDict == InitDict /\ [][NextDict]_vars

InitLexical == InitStores /\ input \in LexicalInputs /\ output = << >>

SpecLexical == InitLexical /\ [][NextLexical]_vars

InitSeek == InitStores /\ input \in SeekInputs /\ output = << >>

SpecSeek == InitSeek /\ [][NextSeek]_vars

InitPredicate == InitStores /\ input \in PredicateInputs /\ output = << >>

SpecPredicate == InitPredicate /\ [][NextPredicate]_vars

InitBlock == InitStores /\ input \in BlockInputs /\ output = << >>

SpecBlock == InitBlock /\ [][NextBlock]_vars

InitStream == InitStores /\ input \in StreamInputs /\ output = << >>

SpecStream == InitStream /\ [][NextStream]_vars

InitPeek == InitStores /\ input \in PeekInputs /\ output = << >>

SpecPeek == InitPeek /\ [][NextPeek]_vars

InitMergeSeek == InitStores /\ input \in MergeSeekInputs /\ output = << >>

SpecMergeSeek == InitMergeSeek /\ [][NextMergeSeek]_vars

InitConstruct == InitStores /\ input \in ConstructInputs /\ output = << >>

SpecConstruct == InitConstruct /\ [][NextConstruct]_vars

InitTruncated == InitStores /\ input \in TruncatedInputs /\ output = << >>

SpecTruncated == InitTruncated /\ [][NextTruncated]_vars

InitParse == InitStores /\ input \in ParseInputs /\ output = << >>

SpecParse == InitParse /\ [][NextParse]_vars

InitEntryBuf == InitStores /\ input \in EntryBufInputs /\ output = << >>

SpecEntryBuf == InitEntryBuf /\ [][NextEntryBuf]_vars

InitEntryCmp == InitStores /\ input \in EntryPairs /\ output = << >>

SpecEntryCmp == InitEntryCmp /\ [][NextEntryCmp]_vars

(***************************************************************************)
(* Claims about the label store.                                           *)
(***************************************************************************)
\* the step in which client c's set_label_option closure runs on an existing name
SetStep(c) ==
    /\ lclient[c].pc = "set"
    /\ lclient'[c].pc = "idle"
    /\ lclient[c].new_label[1].name \in DOMAIN labels

\* C6: for an existing label name, set_label(label, layer) succeeds if and only
\* if label.version equals the version stored under that name; on success the
\* store holds (version + 1, layer) for the name and the call returns that
\* label, and on a version mismatch it returns None.
C6_SetLabelCompareAndSwap ==
    [][\A c \in Clients : SetStep(c) =>
        LET new_label == lclient[c].new_label[1]
            stored == labels[new_label.name]
            updated == Label(new_label.name, stored.version + 1, new_label.layer)
        IN IF new_label.version - 1 = stored.version
           THEN /\ labels'[new_label.name] = updated
                /\ lret'.kind = "Ok" /\ lret'.val = Some(updated)
           ELSE lret'.kind = "Ok" /\ lret'.val = None]_vars

\* a label at version 1 was updated to version 2 with the label returned by the first update
C6_Witness ==
    /\ lret.op = "set" /\ lret.val /= None
    /\ lret.val[1].version = 2
    /\ labels[lret.val[1].name] = lret.val[1]

\* C7: of the set_label calls issued with the same label snapshot (same name
\* and version), in every interleaving at most one returns Some and the others
\* return None, and the stored label is then the one the successful call wrote.
C7_SetLabelLinearizable ==
    /\ [](\A s \in DOMAIN wins : wins[s] <= 1)
    /\ [][\A c \in Clients : SetStep(c) =>
            IF lret'.val /= None
            THEN labels'[lclient[c].new_label[1].name] = lret'.val[1]
            ELSE labels' = labels]_vars

\* two calls were issued with the same snapshot and different layers: the first
\* to run won, the other has just returned None and the winner's layer is stored
C7_Witness ==
    /\ lret.op = "set" /\ lret.kind = "Ok" /\ lret.val = None
    /\ wins[<<lret.arg[1].name, lret.arg[1].version - 1>>] = 1
    /\ labels[lret.arg[1].name].version = lret.arg[1].version
    /\ labels[lret.arg[1].name].layer /= lret.arg[1].layer

\* C8: creating a label whose name already exists fails with an AlreadyExists
\* error and leaves the existing label unchanged.
C8_CreateExistingAlreadyExists ==
    [][\A c \in Clients :
        (lclient[c].pc = "create" /\ lclient'[c].pc = "idle"
            /\ lclient[c].new_label[1].name \in DOMAIN labels)
        => (lret'.kind = "AlreadyExists" /\ labels' = labels)]_vars

(***************************************************************************)
(* Claims about the memory-backed file.                                    *)
(***************************************************************************)
\* C9: once content has been written to a file, a write through a writer
\* obtained afterwards is an error and leaves the content unchanged.
C9_WriteOnce ==
    [][\A w \in 1..MaxWriters :
        (fwriters[w] /= None /\ fwriters'[w] /= None /\ fwriters[w][1].late /\ ~fpoisoned
            /\ fwriters'[w][1].pos /= fwriters[w][1].pos)
        => (fres' = "Err" /\ fvec' = fvec)]_vars

\* C10: the bytes and the length of a buffer returned by map() never change,
\* whatever is written to the file after the map future has completed.
C10_MapStable ==
    [][(fmap.state = "ready" /\ fmap'.state = "ready")
        => SharedBufBytes(fmap', fvec') = SharedBufBytes(fmap, fvec)]_vars

\* a buffer was returned and the file has since been overwritten and extended
C10_Witness ==
    /\ fmap.state = "ready"
    /\ Len(fmap.data) > 0
    /\ Len(fvec) > Len(fmap.data)
    /\ \E i \in 1..Len(fmap.data) : fvec[i] /= fmap.data[i]

(***************************************************************************)
(* Claims about the cross-layer iterator.                                  *)
(***************************************************************************)
\* the iteration started by from_layer has returned None
Exhausted == iter /= None /\ iter[1].done

\* the id triples t such that some layer L_i of the stack of layer n adds t
\* and no more recent layer L_j removes t
AddedAndNotRemovedLater(n) ==
    {string_triple_to_id(get_layer(n), t) : t \in
        {t \in Universe : \E i \in 1..n :
            /\ t \in layers[i].additions
            /\ \A j \in (i + 1)..n : t \notin layers[j].removals}}

\* no layer of the stack of layer n adds a triple that is effective in its
\* immediate parent
NoReAddition(n) == \A i \in 2..n : layers[i].additions \cap Effective(i - 1) = {}

\* C1 as stated: over every stack whose layers have disjoint additions and
\* removals and remove only triples effective in their parent, the iteration
\* from the leaf to exhaustion emits exactly the triples that some layer adds
\* and no more recent layer removes
C1_EmitsAddedAndNotRemovedLater ==
    Exhausted => Range(emitted) = AddedAndNotRemovedLater(iter[1].name)

\* C1 amended: the same, over the stacks in which moreover no layer adds a
\* triple that is effective in its immediate parent
C1_EmitsEffectiveNoReAddition ==
    Exhausted /\ NoReAddition(iter[1].name)
        => Range(emitted) = AddedAndNotRemovedLater(iter[1].name)

C1_Witness ==
    /\ Exhausted
    /\ iter[1].name = 3
    /\ NoReAddition(3)
    /\ \E t \in Universe :
        /\ t \in layers[1].additions
        /\ t \in layers[2].removals
        /\ t \in layers[3].additions
        /\ string_triple_to_id(get_layer(3), t) \in Range(emitted)

\* C2 as stated: over every stack whose layers have disjoint additions and
\* removals and remove only triples effective in their parent, the triples
\* emitted by the cross-layer iterator are strictly ascending
C2_EmittedStrictlyAscending == StrictlyAscending(emitted)

\* C2 amended: the emitted triples are strictly ascending over the stacks in
\* which moreover no layer adds a triple that is effective in its parent
C2_AscendingNoReAddition ==
    iter /= None /\ NoReAddition(iter[1].name) => StrictlyAscending(emitted)

C2_Witness ==
    /\ Exhausted
    /\ NoReAddition(iter[1].name)
    /\ Len(emitted) >= 3
    /\ \E i \in DOMAIN layers, j \in DOMAIN layers :
        /\ i < j
        /\ id_triple_to_string(get_layer(iter[1].name), emitted[1]) \in layers[j].additions
        /\ id_triple_to_string(get_layer(iter[1].name), emitted[2]) \in layers[i].additions

(***************************************************************************)
(* Claims about the rollups.                                               *)
(***************************************************************************)
\* layer.triples().map(|t| layer.id_triple_to_string(&t)).collect()
StringTriples(layer) ==
    [k \in DOMAIN triples(layer) |-> id_triple_to_string(layer, triples(layer)[k])]

\* the layer of the last rollup as the store loads it now
Rolled == get_layer(last.name)

\* C3: delta_rollup(L) builds, without a panic of the builder, a base layer
\* that yields through triples()
\* the same ordered sequence of string-resolved triples as L.triples(), also
\* when L is itself loaded from a rollup
C3_FullRollupPreservesTriples ==
    last.kind = "rollup" =>
        /\ ~Rolled[1].pos.panicked
        /\ Rolled[1].parent = None
        /\ StringTriples(Rolled) = StringTriples(last.layer)

\* a full rollup of a layer loaded from a rollup whose id maps are no
\* identity, with triples of two layers
C3_Witness ==
    /\ last.kind = "rollup"
    /\ last.count = 2
    /\ Len(StringTriples(Rolled)) >= 2
    /\ \E i \in DOMAIN last.layer :
        /\ last.layer[i].predicate_idmap /= None
        /\ \E k \in DOMAIN last.layer[i].predicate_idmap[1] :
            last.layer[i].predicate_idmap[1][k] /= k - 1
    /\ Rolled[1].predicate_idmap /= None
    /\ \E k \in DOMAIN Rolled[1].predicate_idmap[1] : Rolled[1].predicate_idmap[1][k] /= k - 1

\* C4: the child layer that delta_rollup_upto(store, L, upto) produces,
\* loaded on top of upto, has the same ordered string-resolved triples as L,
\* and its changes relative to upto are those of L relative to upto
C4_RollupUptoPreservesTriplesAndChanges ==
    last.kind = "rollup_upto" =>
        /\ StringTriples(Rolled) = StringTriples(last.layer)
        /\ (\E i \in DOMAIN last.layer : last.layer[i].name = last.upto)
            => from_layer_stack(Rolled, last.upto) = from_layer_stack(last.layer, last.upto)

\* C5: the layer that imprecise_delta_rollup_upto produces has the same
\* effective string-resolved triples as the layer that delta_rollup_upto
\* produces for the same arguments
C5_ImpreciseEqualsPrecise ==
    last.kind = "imprecise_rollup_upto" =>
        Range(StringTriples(Rolled))
        = Range(StringTriples(
            <<[delta_rollup_upto(last.layer, last.upto) EXCEPT !.name = last.name]>>
            \o get_layer(last.upto)))

(***************************************************************************)
(* Claims about the memory layer store.                                    *)
(***************************************************************************)
\* the registered parent chain of a name, the name itself first
RECURSIVE parent_chain(_)
parent_chain(name) ==
    <<name>> \o (IF mlayers[name] = None THEN << >> ELSE parent_chain(mlayers[name][1]))

\* C11: get_layer(name) returns None if and only if no layer named name is
\* registered; otherwise it returns a layer named name whose parents are
\* named, in order, as the registered parent chain of name down to the base
\* layer, for chains of any depth and any cache content
C11_GetLayerResolvesParentChain ==
    mgot.name /= 0 =>
        /\ mgot.ret = None <=> ~mgot.registered
        /\ mgot.ret /= None =>
            [i \in DOMAIN mgot.ret[1] |-> mgot.ret[1][i].name] = parent_chain(mgot.name)

(***************************************************************************)
(* Claims about the id maps.                                               *)
(***************************************************************************)
\* the id is one of the ids 1..N of the id map of the calls
InIdMap(id) == input.idmap /= None /\ id \in 1..Len(input.idmap[1])

\* C12: for every id map M of size N and every x in 1..N,
\* M.inner_to_outer(M.outer_to_inner(x)) = x and
\* M.outer_to_inner(M.inner_to_outer(x)) = x, and both functions are
\* bijections on 1..N
C12_IdMapRoundTrip ==
    /\ \A k \in 1..(Len(output) - 1) :
        InIdMap(output[k].id) /\ output[k + 1].fn /= output[k].fn
            => output[k + 1].ret = output[k].id
    /\ \A k \in DOMAIN output : InIdMap(output[k].id) => InIdMap(output[k].ret)
    /\ input.idmap /= None =>
        \A x, y \in 1..Len(input.idmap[1]) :
            /\ outer_to_inner(input.idmap, x) = outer_to_inner(input.idmap, y) => x = y
            /\ inner_to_outer(input.idmap, x) = inner_to_outer(input.idmap, y) => x = y

\* an id of an id map of three ids that both functions change, mapped there
\* and back
C12_Witness ==
    /\ Len(output) = 2
    /\ InIdMap(input.id)
    /\ Len(input.idmap[1]) = 3
    /\ output[1].fn = "outer_to_inner"
    /\ output[2].fn = "inner_to_outer"
    /\ output[1].ret /= input.id
    /\ inner_to_outer(input.idmap, input.id) /= output[1].ret
    /\ output[2].ret = input.id

\* C13: outer_to_inner(x) and inner_to_outer(x) return x for every id x
\* outside 1..N, both x = 0 and x > N, and for every x when there is no id map
C13_IdentityOutsideIdMap ==
    \A k \in DOMAIN output : ~InIdMap(output[k].id) => output[k].ret = output[k].id

(***************************************************************************)
(* Claims about the typed dictionary.                                      *)
(***************************************************************************)
DictEntries == sorted_entries(input)

Dict == build_and_parse(DictEntries)

\* the entry precedes the value of the datatype in the order by (datatype, bytes)
Precedes(e, dt, v) == e[1] < dt \/ (e[1] = dt /\ e[2] < v)

\* C14: for every entry i of a dictionary built from strictly ascending
\* entries, in one segment or in several, looking up the entry that entry(i)
\* returns gives Found(i).
C14_IdOfEntryIsFound ==
    \A k \in DOMAIN output :
        (output[k].fn = "entry" /\ output[k].id <= Len(DictEntries))
            => /\ output[k].ret /= None
               /\ id_slice(Dict, output[k].ret[1][1], output[k].ret[1][2]) = Found(output[k].id)

C14_Witness ==
    /\ Len(output) = 1 /\ output[1].fn = "entry"
    /\ Cardinality({dt \in Datatypes : input[dt] > 0}) > 1
    /\ output[1].id = Len(DictEntries)
    /\ output[1].ret /= None
    /\ id_slice(Dict, output[1].ret[1][1], output[1].ret[1][2]) = Found(output[1].id)

\* C15: a typed dictionary built from n entries sorted by (datatype, bytes),
\* however they are distributed over segments, has num_entries() = n and
\* entry(i) returns the datatype and bytes of the i-th input.
C15_EntryReturnsInput ==
    /\ output /= << >> => Dict.num_entries = Len(DictEntries)
    /\ \A k \in DOMAIN output :
        (output[k].fn = "entry" /\ output[k].id <= Len(DictEntries))
            => output[k].ret = Some(DictEntries[output[k].id])

C15_Witness ==
    /\ Len(output) = 1 /\ output[1].fn = "entry"
    /\ input[0] = 1 /\ input[1] = 8 /\ input[2] = 16
    /\ output[1].id = 10
    /\ output[1].ret = Some(<<2, 2>>)
    /\ Dict.num_entries = 25

\* C16: looking up a value that is not an entry gives Closest(i), i the
\* largest id whose entry precedes the value in the order by (datatype,
\* bytes), and NotFound only if the value precedes the smallest entry.
C16_ClosestPrecedingEntry ==
    \A k \in DOMAIN output :
        (output[k].fn = "id" /\ <<output[k].dt, output[k].slice>> \notin Range(DictEntries))
            => LET before == {i \in DOMAIN DictEntries :
                                Precedes(DictEntries[i], output[k].dt, output[k].slice)}
               IN IF before = {} THEN output[k].ret = NotFound
                  ELSE output[k].ret = Closest(CHOOSE i \in before : \A j \in before : j <= i)

(***************************************************************************)
(* Claims about the lexical encodings.                                    *)
(***************************************************************************)
\* the order of two unsigned integers, of two signed integers in two's
\* complement and of two sequences of bytes
unsigned_less(a, b) == \E k \in DOMAIN a : a[k] < b[k] /\ \A j \in DOMAIN a : j > k => a[j] = b[j]

signed_less(a, b) ==
    IF (a[Len(a)] >= 128) /= (b[Len(b)] >= 128) THEN a[Len(a)] >= 128
    ELSE unsigned_less(a, b)

bytes_less(x, y) == \E k \in DOMAIN x : x[k] < y[k] /\ \A j \in DOMAIN x : j < k => x[j] = y[j]

\* C17: decoding the encoding of a u32, i32, u64, i64, f32 or f64 gives the
\* value back (for the floats: every finite value, the infinities and the
\* zeros of either sign), and a NaN decodes to a NaN.
C17_LexicalRoundTrip ==
    Len(output) = 2 =>
        IF input.ty \in {"f32", "f64"} /\ is_nan(input.ty, input.a)
        THEN is_nan(input.ty, output[2].a)
        ELSE output[2].a = input.a

\* C18: for two integers of one of the types u32, u64, i32 and i64, the
\* first is less than the second exactly if its encoding is less than the
\* other's when the encodings are compared byte by byte.
C18_IntegerOrderPreserved ==
    (output /= << >> /\ input.ty \in {"u32", "u64", "i32", "i64"})
        => LET less == IF input.ty \in {"u32", "u64"} THEN unsigned_less(input.a, input.b)
                       ELSE signed_less(input.a, input.b)
           IN less <=> bytes_less(output[1].a, output[1].b)

C18_Witness ==
    /\ output /= << >> /\ input.ty = "i64"
    /\ input.a[8] = 255 /\ input.b[8] = 0 /\ input.a[1] = 1 /\ input.b[1] = 0
    /\ signed_less(input.a, input.b)
    /\ bytes_less(output[1].a, output[1].b)

(***************************************************************************)
(* Claims about iterating and seeking on one layer.                        *)
(***************************************************************************)
\* the triples that next() returned since the start or since the last seek
Returned == SelectSeq([k \in DOMAIN output |->
                         IF output[k].fn = "next" THEN output[k].ret ELSE None],
                      LAMBDA r : r /= None)

Yielded == [k \in DOMAIN Returned |-> Returned[k][1]]

Finished == output /= << >> /\ output[Len(output)].fn = "next" /\ output[Len(output)].ret = None

IsPrefix(s, t) == Len(s) <= Len(t) /\ s = SubSeq(t, 1, Len(s))

\* C19: iterating the additions of a base layer built from strictly
\* ascending triples, subject ids skipped or not, yields exactly those
\* triples in their order, and no triple with a zero predicate or object.
C19_BaseLayerYieldsItsTriples ==
    (~input.sparse /\ output /= << >> /\ output[1].fn = "next")
        => /\ IsPrefix(Yielded, input.triples)
           /\ Finished => Yielded = input.triples
           /\ \A k \in DOMAIN Yielded : Yielded[k][2] /= 0 /\ Yielded[k][3] /= 0

C19_Witness ==
    /\ ~input.sparse /\ Finished /\ output[1].fn = "next"
    /\ input.triples = <<<<2, 1, 1>>, <<4, 1, 1>>>>
    /\ Yielded = input.triples

\* C20: after seek_subject(s) on the iterator of one layer, also after
\* some triples were consumed, iteration yields exactly the layer's triples
\* with a subject of at least s, ascending: from the next greater subject if
\* s has no triples, nothing if s is past the last subject, all if s is 0.
C20_SeekSubjectYieldsFromSubject ==
    (output /= << >> /\ output[1].fn = "seek_subject")
        => LET from == SelectSeq(input.triples, LAMBDA t : t[1] >= output[1].subject)
           IN /\ IsPrefix(Yielded, from)
              /\ Finished => Yielded = from

C20_Witness ==
    /\ output /= << >> /\ output[1].fn = "seek_subject" /\ Finished
    /\ output[1].subject = 3 /\ output[1].after = 3
    /\ input.triples = <<<<2, 1, 1>>, <<2, 2, 1>>, <<4, 1, 1>>, <<5, 2, 2>>>>
    /\ Yielded = <<<<4, 1, 1>>, <<5, 2, 2>>>>


\* C21: after seek_subject_predicate(s, p) on the iterator of one layer,
\* with a subjects array or without, iteration yields exactly the layer's
\* triples whose (subject, predicate) is at least (s, p), ascending; with
\* p = 0 that is what seek_subject(s) yields, with s = 0 all triples.
C21_SeekSubjectPredicateYieldsFromPair ==
    (output /= << >> /\ output[1].fn = "seek_subject_predicate")
        => LET s == output[1].subject
               p == output[1].predicate
               from == SelectSeq(input.triples,
                                 LAMBDA t : s = 0 \/ t[1] > s \/ (t[1] = s /\ t[2] >= p))
           IN /\ IsPrefix(Yielded, from)
              /\ Finished => Yielded = from

(***************************************************************************)
(* Claims about the predicate iterator of one layer.                       *)
(***************************************************************************)
NextReturned == SelectSeq(output, LAMBDA r : r.fn = "next")

YieldedP == [k \in DOMAIN SelectSeq(NextReturned, LAMBDA r : r.ret /= None) |->
                SelectSeq(NextReturned, LAMBDA r : r.ret /= None)[k].ret[1]]

FinishedP == \E k \in DOMAIN output : output[k].fn = "next" /\ output[k].ret = None

\* C22: the predicate iterator of one layer yields exactly the layer's
\* triples with the predicate, every object of every (subject, predicate)
\* pair, ascending by subject and object, and nothing for a predicate that
\* does not occur.
C22_PredicateIteratorYieldsAllObjects ==
    LET with_p == SelectSeq(input.triples, LAMBDA t : t[2] = input.predicate)
    IN /\ IsPrefix(YieldedP, with_p)
       /\ FinishedP => YieldedP = with_p


C24_BlockEntryRoundTrip ==
    \A k \in DOMAIN output : output[k].fn = "entry" => output[k].ret = input[output[k].index + 1]

C24_Witness ==
    /\ output /= << >> /\ output[1].fn = "entry"
    /\ input = <<<<1>>, <<1, 1>>, <<1, 1, 2>>, <<1, 2>>, <<2>>>>
    /\ output[1].index = 2
    /\ output[1].ret = <<1, 1, 2>>

(***************************************************************************)
(* Claims about the triple stream of a base layer.                         *)
(***************************************************************************)
\* C25: the stream opened over the s_p and sp_o files of a base layer
\* yields the triples the layer was built from, in order: every pair
\* (sp, o) of sp_o as (s, p, o) with (s, p) the pair of s_p it belongs to;
\* the stream ends when sp_o ends.
C25_BaseTripleStreamYieldsTriples ==
    /\ \A k \in DOMAIN output :
        IF k <= Len(input.triples) THEN output[k].ret = Some(input.triples[k])
        ELSE output[k].ret = None
    /\ (output /= << >> /\ output[Len(output)].ret = None) => input.stream.sp_o_stream = << >>

C25_Witness ==
    /\ Len(output) = 5 /\ output[5].ret = None
    /\ input.triples = <<<<2, 1, 1>>, <<2, 1, 3>>, <<2, 2, 1>>, <<5, 2, 2>>>>

(***************************************************************************)
(* Claims about the creation of child layers in the memory layer store.    *)
(***************************************************************************)
\* C26: create_child_layer(parent) for a parent name that is not registered
\* in the layer store fails with NotFound and registers no layer: the names
\* layers() returns are the same before and after the call
C26_CreateChildOfMissingParentNotFound ==
    [][(mcreated' /= mcreated /\ mcreated'.parent \notin DOMAIN mlayers)
        => (mcreated'.kind = "NotFound" /\ DOMAIN mlayers' = DOMAIN mlayers)]_vars

C26_Witness ==
    /\ mcreated.kind = "NotFound"
    /\ mcreated.parent = 3
    /\ Len(mlayers) = 2
    /\ mlayers[2] = Some(1)

(***************************************************************************)
(* Claims about the passes of the loop of the cross-layer iterator.        *)
(***************************************************************************)
\* the triples an iterator of one layer has yet to yield
RECURSIVE pending(_)
pending(o) ==
    LET n == Opt_next(o)
    IN IF n.out = None THEN << >> ELSE <<n.out[1]>> \o pending(n.self)

\* the iterator at the start of every pass of the next call of next()
RECURSIVE passes(_)
passes(self) ==
    LET p == next_pass(self)
    IN <<self>> \o (IF p.again THEN passes(p.self) ELSE << >>)

\* the passes of the call of next() that comes next on the iterator of the store
Passes == IF iter = None THEN << >> ELSE passes(iter[1].it)

\* the layers (indices from 1, the leaf first) whose pending addition is the
\* lowest of all pending additions
Lowest(self) ==
    LET some == {i \in DOMAIN self.positives : pending(self.positives[i]) /= << >>}
    IN {i \in some : \A j \in some :
            \/ pending(self.positives[i])[1] = pending(self.positives[j])[1]
            \/ TripleLess(pending(self.positives[i])[1], pending(self.positives[j])[1])}

\* the layers whose iterator of additions, or of removals, a pass advances
AdvancedPositives(self) ==
    {i \in DOMAIN self.positives :
        pending(next_pass(self).self.positives[i]) /= pending(self.positives[i])}

AdvancedNegatives(self) ==
    {i \in DOMAIN self.negatives :
        pending(next_pass(self).self.negatives[i]) /= pending(self.negatives[i])}

Min(S) == CHOOSE i \in S : \A j \in S : i <= j

\* C27: when the lowest pending addition is pending in several layers at
\* once, the pass takes it from the most recent of them, the one with the
\* lowest index in the leaf-first list, and advances the iterator of
\* additions of that layer only, by that one triple
C27_TieTakenFromMostRecentLayer ==
    \A k \in DOMAIN Passes :
        LET self == Passes[k]
            i == Min(Lowest(self))
        IN Cardinality(Lowest(self)) >= 2 =>
            /\ AdvancedPositives(self) = {i}
            /\ pending(next_pass(self).self.positives[i]) = Tail(pending(self.positives[i]))
            /\ next_pass(self).out \in {None, Some(pending(self.positives[i])[1])}

\* a triple added by the base layer and by its child has been yielded once
\* from the iterator of the child, and is pending in the base layer only
C27_Witness ==
    /\ Len(layers) = 2
    /\ layers[1].additions \cap layers[2].additions /= {}
    /\ iter /= None
    /\ iter[1].name = 2
    /\ Len(emitted) = 1
    /\ pending(iter[1].it.positives[1]) = << >>
    /\ pending(iter[1].it.positives[2]) = <<emitted[1]>>

\* C28: a pass that consumes a removal consumes one removal of one layer j,
\* the removal is the addition the pass has taken, the addition comes from
\* a layer strictly older than j (a higher index in the leaf-first list),
\* never from j or a more recent layer, and the pass takes that one
\* addition only and returns nothing
C28_RemovalCancelsOlderAdditionOnly ==
    \A k \in DOMAIN Passes :
        LET self == Passes[k]
            after == next_pass(self).self
        IN \A j \in AdvancedNegatives(self) :
            /\ AdvancedNegatives(self) = {j}
            /\ pending(after.negatives[j]) = Tail(pending(self.negatives[j]))
            /\ \E i \in DOMAIN self.positives :
                /\ j < i
                /\ AdvancedPositives(self) = {i}
                /\ pending(after.positives[i]) = Tail(pending(self.positives[i]))
                /\ pending(self.positives[i])[1] = pending(self.negatives[j])[1]
            /\ next_pass(self).out = None
            /\ next_pass(self).again

\* the call of next() that comes next consumes a removal of a layer in a
\* stack where the removed triple is added again by a more recent layer
C28_Witness ==
    /\ Len(layers) = 3
    /\ layers[1].additions \cap layers[2].removals \cap layers[3].additions /= {}
    /\ iter /= None
    /\ iter[1].name = 3
    /\ Len(emitted) = 1
    /\ \E k \in DOMAIN Passes : AdvancedNegatives(Passes[k]) = {2}

\* the additions pending in all layers
Pending(self) == Sum([i \in DOMAIN self.positives |-> Len(pending(self.positives[i]))])

\* C29: every call of next() ends: every pass of its loop consumes exactly
\* one pending addition or, when none is pending, returns None; the call
\* makes no more passes than there are pending additions, plus the one that
\* returns None; and after None every further call returns None
C29_NextTerminates ==
    /\ \A k \in DOMAIN Passes :
        LET self == Passes[k]
            p == next_pass(self)
        IN /\ Pending(self) > 0 => Pending(p.self) = Pending(self) - 1
           /\ Pending(self) = 0 => p.out = None /\ ~p.again /\ Pending(p.self) = 0
           /\ p.again => p.out = None
    /\ iter /= None =>
        /\ Len(Passes) <= Pending(iter[1].it) + 1
        /\ LET n == InternalTripleSubjectIterator_next(iter[1].it)
           IN n.out = None =>
                /\ Pending(n.self) = 0
                /\ InternalTripleSubjectIterator_next(n.self).out = None
                /\ InternalTripleSubjectIterator_next(
                        InternalTripleSubjectIterator_next(n.self).self).out = None

\* an iterator over a stack with a removal has returned None, after it
\* yielded a triple and a pass of a call consumed an addition with its removal
C29_Witness ==
    /\ iter /= None
    /\ iter[1].done
    /\ Len(layers) >= 2
    /\ Pending(iter[1].it) = 0
    /\ Len(emitted) >= 1
    /\ Len(emitted) < Pending(from_layer(get_layer(iter[1].name)))
    /\ \E n \in DOMAIN layers : layers[n].removals /= {}

(***************************************************************************)
(* Claims about peeking at the iterators of one layer.                     *)
(***************************************************************************)
\* what n calls of next() return on an iterator that is never peeked at
RECURSIVE NextsOnly(_, _, _)
NextsOnly(kind, it, n) ==
    IF n = 0 THEN << >>
    ELSE <<next_of(kind, it).out>> \o NextsOnly(kind, next_of(kind, it).self, n - 1)

\* what the calls of next() in the output returned
RECURSIVE NextsOf(_)
NextsOf(out) ==
    IF out = << >> THEN << >>
    ELSE IF Head(out).fn = "next" THEN <<Head(out).ret>> \o NextsOf(Tail(out))
    ELSE NextsOf(Tail(out))

\* C30: on the subject iterator and the predicate iterator of one layer
\* peek() never advances: a peek returns what the call after it returns, be
\* it a peek or a next, and the calls of next() return the same sequence as
\* on an iterator never peeked at, however the peeks are interleaved; at
\* the end peeks keep returning None
C30_PeekDoesNotAdvance ==
    /\ \A k \in DOMAIN output :
        (output[k].fn = "peek" /\ k < Len(output)) => output[k + 1].ret = output[k].ret
    /\ NextsOf(output) = NextsOnly(input.kind, input.start, Len(NextsOf(output)))
    /\ \A k \in DOMAIN output :
        (output[k].fn = "next" /\ output[k].ret = None) =>
            \A j \in k..Len(output) : output[j].ret = None

\* a layer of two triples: two peeks and the next return the first triple,
\* twice, and at the end two peeks and the next return None
C30_Witness ==
    /\ input.kind = "subject"
    /\ Len(input.triples) = 2
    /\ Len(output) = 7
    /\ [k \in DOMAIN output |-> output[k].fn]
            = <<"peek", "peek", "next", "next", "peek", "peek", "next">>
    /\ output[3].ret = Some(input.triples[1])
    /\ output[4].ret = Some(input.triples[2])
    /\ output[7].ret = None

(***************************************************************************)
(* Claims about seeking on the cross-layer iterator.                       *)
(***************************************************************************)
\* the effective triples of the stack at or after the pair (s, p), ascending
EffectiveFrom(s, p) ==
    SelectSeq(SortTriples(EffectiveOf(input.stack)),
              LAMBDA t : s = 0 \/ t[1] > s \/ (t[1] = s /\ t[2] >= p))

\* C31: after seek_subject_predicate(s, p) on the cross-layer iterator of a
\* well-formed stack (seek_subject(s) being the case p = 0), at any point of
\* the iteration, iterating yields exactly the effective triples of the
\* stack whose (subject, predicate) is at least (s, p), ascending: none is
\* skipped and no removed triple is emitted
C31_MergeSeekYieldsEffectiveFromPair ==
    (output /= << >> /\ output[1].fn /= "next")
        => /\ IsPrefix(Yielded, EffectiveFrom(output[1].subject, output[1].predicate))
           /\ Finished => Yielded = EffectiveFrom(output[1].subject, output[1].predicate)

(***************************************************************************)
(* Claims about the bound of an imprecise rollup.                          *)
(***************************************************************************)
\* the names of a layer in memory and of its in-memory ancestors, the leaf first
MemoryNames(layer) == [i \in DOMAIN layer |-> layer[i].name]

\* the first in-memory ancestor (an index from 2) that is upto or is not in
\* the names of the stack, one past the base layer if there is none
FirstStop(layer, upto) ==
    LET names == Range(retrieve_layer_stack_names_upto(layer[1].name, upto))
        stops == {i \in 2..Len(layer) : layer[i].name = upto \/ layer[i].name \notin names}
    IN IF stops = {} THEN Len(layer) + 1 ELSE CHOOSE i \in stops : \A j \in stops : i <= j

\* C32: for a layer and an ancestor upto of its stack, safe_upto_bound returns
\* upto, the name of the layer or the name of one of its in-memory
\* ancestors, never a layer older than upto; it returns upto when the layer
\* is upto or when the in-memory parents lead to upto through layers that
\* are all in the names of the stack, and otherwise the last in-memory layer
\* reached before a parent that is missing or not in those names
C32_SafeUptoBound ==
    \A n \in DOMAIN layers : \A upto \in Range(walk_backwards_from_disk_upto(n, 0)) :
        LET layer == get_layer(n)
            bound == safe_upto_bound(layer, upto)
            stop == FirstStop(layer, upto)
        IN /\ bound \in {upto} \cup Range(MemoryNames(layer))
           /\ bound \in {upto} \cup Range(walk_backwards_from_disk_upto(n, upto))
           /\ IF n = upto THEN bound = upto
              ELSE IF stop <= Len(layer) /\ layer[stop].name = upto THEN bound = upto
              ELSE bound = layer[stop - 1].name

\* an imprecise rollup of layer 3 up to layer 1 has run on a stack whose
\* layer 2 is loaded from a full rollup: the bound is layer 2, not layer 1
C32_Witness ==
    /\ last.kind = "imprecise_rollup_upto"
    /\ last.name = 3
    /\ last.upto = 1
    /\ MemoryNames(last.layer) = <<3, 2>>
    /\ safe_upto_bound(last.layer, 1) = 2

(***************************************************************************)
(* Claims about the construction of the id maps of a rollup.               *)
(***************************************************************************)
\* the entry an id of the stacked source layers denotes: the layer the id
\* falls in, the id of the layer's id map taken back to the position in the
\* layer's dictionaries, the nodes before the values
RECURSIVE SourceEntry(_, _, _, _, _)
SourceEntry(firsts, seconds, idmaps, ix, id) ==
    LET size == Len(firsts[ix]) + Len(seconds[ix])
        inner == outer_to_inner(idmaps[ix], id)
    IN IF id > size THEN SourceEntry(firsts, seconds, idmaps, ix + 1, id - size)
       ELSE IF inner <= Len(firsts[ix]) THEN <<"first", firsts[ix][inner]>>
       ELSE <<"second", seconds[ix][inner - Len(firsts[ix])]>>

\* the entry an id denotes in the rolled-up layer: the id of the new id map
\* taken back to the position in the merged dictionaries
RolledEntry(firsts, seconds, idmap, id) ==
    LET first == merge_string_dictionaries(firsts)
        second == merge_string_dictionaries(seconds)
        inner == outer_to_inner(idmap, id)
    IN IF inner <= Len(first) THEN <<"first", first[inner]>>
       ELSE <<"second", second[inner - Len(first)]>>

IsPermutation(s) == Range(s) = 0..(Len(s) - 1)

NoValues == <<<< >>, << >>>>

\* C33: for source layers whose dictionaries are pairwise disjoint, the two
\* sequences construct_idmaps_from_structures emits are permutations of
\* 0..N-1, N the number of entries of all source layers, and the element k
\* is the stacked id minus one of the entry ranked k in the merged
\* dictionaries, all nodes before all values: every id denotes the same
\* entry in the rolled-up layer as in the source layers
C33_ConstructedIdMapsKeepEntries ==
    output /= << >> =>
        LET nv == output[1].node_value_idmap
            pr == output[1].predicate_idmap
            N == Sum([ix \in 1..2 |-> Len(input.node_dicts[ix]) + Len(input.value_dicts[ix])])
            P == Sum([ix \in 1..2 |-> Len(input.predicate_dicts[ix])])
        IN /\ Len(nv[1]) = N /\ IsPermutation(nv[1])
           /\ Len(pr[1]) = P /\ IsPermutation(pr[1])
           /\ \A id \in 1..N :
                RolledEntry(input.node_dicts, input.value_dicts, nv, id)
                    = SourceEntry(input.node_dicts, input.value_dicts,
                                  input.node_value_idmaps, 1, id)
           /\ \A id \in 1..P :
                RolledEntry(input.predicate_dicts, NoValues, pr, id)
                    = SourceEntry(input.predicate_dicts, NoValues,
                                  input.predicate_idmaps, 1, id)

\* two source layers with nodes, a value and predicates, the entries of the
\* younger layer before those of the older one, both with id maps that are
\* not the identity
C33_Witness ==
    /\ output /= << >>
    /\ input.node_dicts = <<<<2>>, <<1>>>>
    /\ input.value_dicts = <<<<1>>, << >>>>
    /\ input.predicate_dicts = <<<<2>>, <<1>>>>
    /\ input.node_value_idmaps = <<Some(<<1, 0>>), None>>
    /\ output[1].node_value_idmap = Some(<<2, 1, 0>>)
    /\ output[1].predicate_idmap = Some(<<1, 0>>)

(***************************************************************************)
(* Claims about the two paths of the dictionary rollup.                    *)
(***************************************************************************)
\* C34: when the bound of a rollup of a layer up to an ancestor is the
\* ancestor itself, so that no layer is read from disk,
\* dictionary_rollup_upto passes to the construction of the id maps the
\* predicate id map of every in-memory layer, as
\* memory_dictionary_rollup_upto does, and both build the same dictionaries
\* and id maps
C34_DictionaryRollupPathsAgree ==
    \A n \in DOMAIN layers : \A upto \in Range(walk_backwards_from_disk_upto(n, 0)) \ {n} :
        safe_upto_bound(get_layer(n), upto) = upto =>
            /\ memory_predicate_idmaps(immediate_layers_upto(get_layer(n), upto))
                = Field(immediate_layers_upto(get_layer(n), upto), "predicate_idmap")
            /\ dictionary_rollup_upto(get_layer(n), upto, upto)
                = memory_dictionary_rollup_upto(get_layer(n), upto)

(***************************************************************************)
(* Claims about the versions of the labels.                                *)
(***************************************************************************)
\* C35: a set_label call that returns None, its version not being the one
\* stored, leaves the label store as it was: the same names, and for the
\* label of the call and every other label the same version and layer
C35_FailedSetLabelChangesNothing ==
    [][\A c \in Clients :
        (lclient[c].pc = "set" /\ lclient'[c].pc = "idle"
            /\ lret'.kind = "Ok" /\ lret'.val = None)
        => /\ DOMAIN labels' = DOMAIN labels
           /\ \A n \in DOMAIN labels :
                /\ labels'[n].version = labels[n].version
                /\ labels'[n].layer = labels[n].layer]_vars

\* a set_label with the label of version 0 and a layer has just returned
\* None on a store that holds the label at version 1 without a layer, next
\* to another label
C35_Witness ==
    /\ lret.op = "set" /\ lret.kind = "Ok" /\ lret.val = None
    /\ lret.arg = Some(Label("foo", 1, Some(1)))
    /\ DOMAIN labels = {"foo", "bar"}
    /\ labels["foo"] = Label("foo", 1, None)

\* the number of set_label calls on the name that have succeeded
SuccessfulSets(name) == Sum([k \in 1..(MaxVersion + 1) |-> wins[<<name, k - 1>>]])

\* C36: in every reachable state the version of a label is the number of
\* set_label calls that have succeeded on its name since it was created: a
\* label is created with version 0, and its version never decreases and
\* changes only by +1, in the step of a set_label that succeeds
C36_VersionCountsSuccessfulSets ==
    /\ [](\A n \in DOMAIN labels : labels[n].version = SuccessfulSets(n))
    /\ [][\A n \in DOMAIN labels' :
            IF n \notin DOMAIN labels THEN labels'[n].version = 0
            ELSE \/ labels'[n].version = labels[n].version
                 \/ /\ labels'[n].version = labels[n].version + 1
                    /\ lret'.op = "set"
                    /\ lret'.val = Some(labels'[n])]_vars

\* a label has been set twice and is at version 2
C36_Witness ==
    /\ "foo" \in DOMAIN labels
    /\ labels["foo"].version = 2
    /\ SuccessfulSets("foo") = 2
    /\ lret.op = "set" /\ lret.val = Some(labels["foo"])

(***************************************************************************)
(* Claims about a base triple stream whose s_p stream ends early.          *)
(***************************************************************************)
\* the sp_o stream holds a pair with a new sp index and the s_p stream is
\* exhausted
EofPending(self) ==
    /\ self.sp_o_stream /= << >>
    /\ Head(self.sp_o_stream)[1] > self.last_sp
    /\ self.s_p_stream = << >>

\* C37: when the sp_o stream yields a pair with a new sp index while the
\* s_p stream is exhausted, poll_next yields UnexpectedEof and leaves the
\* pending sp_o pair in place; every poll after an UnexpectedEof yields
\* UnexpectedEof again, never the end of the stream.
C37_UnexpectedEofRepeats ==
    /\ [](\A i \in 1..Len(output) : \A j \in i..Len(output) :
            output[i].ret = Some(UnexpectedEof) => output[j].ret = Some(UnexpectedEof))
    /\ [][(EofPending(input.stream) /\ Len(output') = Len(output) + 1)
            => /\ output'[Len(output')].ret = Some(UnexpectedEof)
               /\ input'.stream.sp_o_stream = input.stream.sp_o_stream
               /\ EofPending(input'.stream)]_vars

\* two triples were yielded, the s_p stream ended before the third pair, and
\* two polls gave UnexpectedEof with the pair of the third still pending
C37_Witness ==
    /\ Len(output) = 4
    /\ output[1].ret = Some(<<2, 1, 1>>)
    /\ output[2].ret = Some(<<2, 1, 3>>)
    /\ output[3].ret = Some(UnexpectedEof)
    /\ output[4].ret = Some(UnexpectedEof)
    /\ input.stream.sp_o_stream /= << >>
    /\ input.stream.s_p_stream = << >>

(***************************************************************************)
(* Claims about parsing a block.                                           *)
(***************************************************************************)
\* the bytes hold the count, the length of the first entry and a pair for
\* every later entry
HeaderComplete(buf) == buf /= << >> /\ Len(buf) >= 2 * buf[1]

\* the payload length the header declares
DeclaredLength(buf) == Sum([i \in 1..buf[1] |-> buf[2 * i]])

\* C38: TfcBlock::parse never panics; a block whose entry count is outside
\* 1..=8 yields InvalidCoding; a buffer that ends before the header is
\* complete or before the declared payload length yields NotEnoughData.
C38_ParseReportsMalformedInput ==
    output /= << >> =>
        LET buf == input.bytes
            ret == output[1].ret
        IN /\ ret.kind /= "Panic"
           /\ (buf /= << >> /\ buf[1] \notin 1..BLOCK_SIZE) => ret.kind = "InvalidCoding"
           /\ (buf = << >> \/ (buf[1] \in 1..BLOCK_SIZE /\ ~HeaderComplete(buf)))
                => ret.kind = "NotEnoughData"
           /\ (buf /= << >> /\ buf[1] \in 1..BLOCK_SIZE /\ HeaderComplete(buf)
                 /\ Len(buf) - 2 * buf[1] < DeclaredLength(buf))
                => ret.kind = "NotEnoughData"

(***************************************************************************)
(* Claims about the buffers over a dictionary entry.                       *)
(***************************************************************************)
\* the bytes from the read position of the buffer to the end of the entry
Rest(self) ==
    buf_chunk(self) \o Flatten(SubSeq(self.entry, self.slice_ix + 2, Len(self.entry)))

Drop(s, n) == SubSeq(s, n + 1, Len(s))

\* C39: advance(cnt) with cnt <= remaining() decreases remaining() by cnt
\* and moves the read position forward by cnt bytes, also across slice
\* boundaries; after any sequence of advances the buffer is at the byte of
\* the entry that follows the bytes advanced over.
C39_AdvanceMovesByCnt ==
    /\ [](output /= << >> =>
            /\ buf_remaining(input.buf) = Len(to_vec(input.buf.entry)) - output[1].advanced
            /\ Rest(input.buf) = Drop(to_vec(input.buf.entry), output[1].advanced))
    /\ [][output' /= << >> =>
            /\ buf_remaining(input'.buf) = buf_remaining(input.buf) - output'[1].cnt
            /\ Rest(input'.buf) = Drop(Rest(input.buf), output'[1].cnt)]_vars

(***************************************************************************)
(* Claims about comparing dictionary entries.                              *)
(***************************************************************************)
\* C40: a.cmp(b) is the comparison of the concatenated bytes of a and b,
\* a == b holds iff the concatenations are equal, and buf_eq(b) holds iff
\* the buffer holds the bytes of the entry, however the bytes are split
\* into slices.
C40_ComparisonIgnoresSlicing ==
    output /= << >> =>
        LET ret == output[1].ret
            bytes_a == to_vec(input.a)
            bytes_b == to_vec(input.b)
        IN /\ ret.kind = "Ok"
           /\ output[1].fn = "cmp" => ret.val = bytes_cmp(bytes_a, bytes_b)
           /\ output[1].fn = "eq" => ret.val = (bytes_a = bytes_b)
           /\ output[1].fn = "buf_eq" => ret.val = (bytes_a = bytes_b)

====
